---- MODULE Spec2Model ----
(***************************************************************************)
(* Your Chowk: the job ledger, the application/attendance ledger and the   *)
(* identity directory, with the handlers that mutate them.                 *)
(*                                                                         *)
(* Every handler is an async function: each `await` on the datastore is a  *)
(* suspension point, so a handler is modelled as one action per datastore  *)
(* statement (together with the synchronous code that follows it up to the *)
(* next await).  call[p] is the activation record of handler invocation p. *)
(*                                                                         *)
(* The datastore is PostgreSQL behind Prisma.  prisma.$transaction(fn) is  *)
(* given no isolationLevel, so the interactive transaction runs READ       *)
(* COMMITTED: every statement reads the latest committed rows, writes are  *)
(* private until commit, an UPDATE waits for the row lock and then applies *)
(* its increment to the latest committed row, and a throw rolls back.      *)
(*                                                                         *)
(* Time is counted in days: `now` is the wall clock, dates are day numbers.*)
(***************************************************************************)
EXTENDS Integers, Sequences, FiniteSets, TLC

\* ------------------------------------------------------------------ bounds
\* registered workers
NumWorkers == 2
\* largest workersNeeded a job is posted with
MaxNeeded == 2
\* handler invocations in a run from the empty database
MaxCalls == 3
\* handler invocations in a run from the seeded database
MaxSeedCalls == 4
\* jobs the post_job tool creates in a run
MaxJobs == 1
\* last day of the clock
MaxTime == 2
\* latest start or end date a job is posted with
MaxDate == 1
\* distinct codes the random draw can produce
NumOtps == 2
\* phones that converse with the bot
NumPhones == 1
\* messages the bot handles in a run of the conversational flows
MaxMsgs == 6
MaxEnqueued == 5

\* The datastore's null (DateTime? / String? columns), and "no row".
Null == -1
NoOtp == 0

Workers == {100 + i : i \in 1..NumWorkers}
Contractors == {201, 202}
Procs == {1, 2}
Otps == 1..NumOtps
Dates == 0..MaxDate
Phones == {300 + i : i \in 1..NumPhones}

\* Job ids are UUID strings; a job id shorter than the full length is a
\* prefix.  Ids are modelled as digit sequences of length IdLen.
IdLen == 2
JobIds == {<<1, 1>>, <<1, 2>>}
JobArgs == JobIds \cup {<<1>>}

startsWith(id, prefix) ==
    /\ Len(prefix) <= Len(id)
    /\ SubSeq(id, 1, Len(prefix)) = prefix

VARIABLES
    job,        \* Job ledger: id -> row (status "NONE": no such row)
    app,        \* Application ledger: <<jobId, workerPhone>> -> row
    worker,     \* Identity directory: phone -> row
    now,        \* wall clock, in days
    call,       \* activation record of each running handler
    reply,      \* the handler returning in this step: its reply, its notices
    fuel,       \* handler invocations still to come (bounds the run)
    needed0,    \* history: workersNeeded each job was created with
    consumed,   \* history: code -> expiry of its last successful verification
    state,      \* Conversation State table: phone -> row
    identity,   \* Identity directory, the columns the flows write: phone -> row
    posting,    \* Job ledger, the columns the posting flow writes: id -> row
    bq          \* the broadcast queue: its module state and its history

\* The tables of the conversational flows, and the broadcast queue.
flowVars == <<state, identity, posting, bq>>

vars == <<job, app, worker, now, call, reply, fuel, needed0, consumed,
          state, identity, posting, bq>>

\* ------------------------------------------------------------------- rows
NoJob == [contractorPhone |-> 0, status |-> "NONE", workersNeeded |-> 0,
          startDate |-> Null, endDate |-> Null]

NoApp == [status |-> "NONE", otp |-> NoOtp, otpExpiresAt |-> Null,
          attendanceStatus |-> "NOT_MARKED", attendanceMarkedAt |-> Null,
          cancelledBy |-> "none"]

NoRef == <<>>

\* A text column or context field that holds nothing (undefined, null, '').
Absent == <<>>

NoContext == [name |-> Absent, skill |-> Absent, location |-> Absent,
              idImageUrl |-> Absent, title |-> Absent, skillRequired |-> Absent,
              wage |-> Absent, workersNeeded |-> Null]

NoState == [currentStep |-> <<>>, contextData |-> NoContext, role |-> "none"]

NoIdentity == [role |-> "none", name |-> Absent, skill |-> Absent,
               location |-> Absent, idImageUrl |-> Absent, isOnboarded |-> FALSE]

NoPosting == [title |-> Absent, skillRequired |-> Absent, wage |-> Absent,
              location |-> Absent]

\* The queue once init has given it the send function: nothing queued, no
\* loop running.  History: attempts and enqueued are the items handed to
\* sendFn and the items pushed, in order; dropped the items shifted while
\* there was no send function; active counts the processQueue activations
\* that have passed the guard and not returned; elapsed tells that
\* MESSAGE_DELAY_MS has passed since the last send attempt; thrown holds the
\* items whose send was rejected.
IdleQueue == [queue |-> <<>>, isProcessing |-> FALSE, pc |-> "idle",
              sendFn |-> TRUE, attempts |-> <<>>, enqueued |-> <<>>,
              dropped |-> <<>>, active |-> 0, elapsed |-> FALSE,
              thrown |-> {}]

\* No conversation is under way and nobody has registered through the bot.
NoFlow ==
    /\ bq = IdleQueue
    /\ state = [ph \in Phones |-> NoState]
    /\ identity = [u \in Phones \cup Workers |-> NoIdentity]
    /\ posting = [j \in JobIds |-> NoPosting]

Idle == [op |-> "idle", pc |-> "idle", phone |-> 0, arg |-> <<>>,
         jobId |-> NoRef, jobRow |-> NoJob, appKey |-> NoRef, appRow |-> NoApp,
         otp |-> NoOtp, otpExpiresAt |-> Null, by |-> "none",
         result |-> "none", sent |-> <<>>, pre |-> {}, found |-> {}]

\* Handler slots are interchangeable: an invocation takes the first idle one.
Free(p) ==
    /\ call[p].pc = "idle"
    /\ \A q \in Procs : q < p => call[q].pc # "idle"
    /\ fuel > 0

\* A handler invocation starts and runs to its first suspension point, or
\* returns at once.
Begin(p, rec) ==
    /\ fuel' = fuel - 1
    /\ UNCHANGED flowVars
    /\ IF rec.pc = "done"
       THEN call' = call /\ reply' = rec
       ELSE call' = [call EXCEPT ![p] = rec] /\ reply' = Idle

\* A running handler moves on to its next statement, or returns.
Step(p, rec) ==
    /\ UNCHANGED flowVars
    /\ IF rec.pc = "done"
       THEN call' = [call EXCEPT ![p] = Idle] /\ reply' = rec
       ELSE call' = [call EXCEPT ![p] = rec] /\ reply' = Idle

Msg(to, kind, code) == [to |-> to, kind |-> kind, otp |-> code]

\* A notice whose text interpolates `worker.name || 'A worker'`: name is the
\* column's value, Absent where the text falls back to 'A worker'.
NamedMsg(to, kind, name) ==
    [to |-> to, kind |-> kind, otp |-> NoOtp, name |-> name]

\* The handler returns: its locals die.  A success leaves the reply and the
\* notices it enqueued observable, a failure only its message.
Return(rec, result, sent) ==
    IF result = "SUCCESS"
    THEN [Idle EXCEPT !.op = rec.op, !.pc = "done", !.phone = rec.phone,
                      !.jobId = rec.jobId, !.appKey = rec.appKey,
                      !.by = rec.by, !.otp = rec.otp, !.pre = rec.pre,
                      !.result = result, !.sent = sent]
    ELSE [Idle EXCEPT !.op = rec.op, !.pc = "done", !.pre = rec.pre,
                      !.result = result]

\* Registered workers, no job, no application, no handler running.
Init ==
    /\ job = [j \in JobIds |-> NoJob]
    /\ app = [k \in JobIds \X Workers |-> NoApp]
    /\ worker = [w \in Workers |-> [availableFrom |-> Null]]
    /\ now = 0
    /\ call = [p \in Procs |-> Idle]
    /\ reply = Idle
    /\ fuel = MaxCalls
    /\ needed0 = [j \in JobIds |-> 0]
    /\ consumed = [o \in Otps |-> Null]
    /\ NoFlow

\* Job ids are interchangeable: a new job takes the first unused one.
NewJobId(j) ==
    /\ job[j].status = "NONE"
    /\ \A i \in JobIds : job[i].status = "NONE" => i[2] >= j[2]

\* ------------------------------------------------------------ job posting
\* jobService.createJob: the job-posting flow's terminal step.  The count
\* was validated to lie in [1,100] by the awaiting_workers_needed step.
createJob(c, k) ==
    /\ \E j \in JobIds :
        /\ NewJobId(j)
        /\ job' = [job EXCEPT ![j] = [contractorPhone |-> c, status |-> "OPEN",
                                      workersNeeded |-> k,
                                      startDate |-> Null, endDate |-> Null]]
        /\ needed0' = [needed0 EXCEPT ![j] = k]
    /\ reply' = Idle
    /\ UNCHANGED <<app, worker, now, call, fuel, consumed>>
    /\ UNCHANGED flowVars

\* ---------------------------------------------------- acceptance (acceptJob)
\* Statement 1, outside the transaction: find the job by full id or prefix.
OpenWithPrefix(prefix) ==
    {j \in JobIds : job[j].status = "OPEN" /\ startsWith(j, prefix)}

\* History, for the duplicate-application property: when the call begins,
\* jobId denotes exactly one job and this worker already holds an
\* Application for it.
AppliedBefore(workerPhone, jobId) ==
    \E j \in JobIds :
        /\ {i \in JobIds : job[i].status # "NONE" /\ startsWith(i, jobId)} = {j}
        /\ app[<<j, workerPhone>>].status # "NONE"

\* History, for the prefix property: when the call begins, jobId is a partial
\* id and a prefix of more than one OPEN job's id.
Ambiguous(jobId) ==
    Len(jobId) < IdLen /\ Cardinality(OpenWithPrefix(jobId)) > 1

acceptJob_find(p, workerPhone, jobId) ==
    /\ Free(p)
    /\ LET rec == [Idle EXCEPT !.op = "acceptJob", !.phone = workerPhone,
                               !.arg = jobId,
                               !.pre = (IF AppliedBefore(workerPhone, jobId)
                                        THEN {"applied"} ELSE {}) \cup
                                       (IF Ambiguous(jobId)
                                        THEN {"ambiguous"} ELSE {})]
           hit(j) == IF job[j].status # "OPEN"
                     THEN Return(rec, "JOB_FILLED", <<>>)
                     ELSE [rec EXCEPT !.pc = "tx_job", !.jobId = j,
                                      !.jobRow = job[j]]
           miss == Return(rec, "JOB_NOT_FOUND", <<>>)
       IN IF Len(jobId) < IdLen
          THEN IF OpenWithPrefix(jobId) = {}
               THEN Begin(p, miss)
               ELSE \E j \in OpenWithPrefix(jobId) : Begin(p, hit(j))
          ELSE IF job[jobId].status = "NONE"
               THEN Begin(p, miss)
               ELSE Begin(p, hit(jobId))
    /\ UNCHANGED <<job, app, worker, now, needed0, consumed>>

\* Statement 2, inside the transaction: re-read the job.
acceptJob_txJob(p) ==
    /\ call[p].op = "acceptJob" /\ call[p].pc = "tx_job"
    /\ LET currentJob == job[call[p].jobId]
       IN Step(p, IF currentJob.status # "OPEN" \/ currentJob.workersNeeded <= 0
                  THEN Return(call[p], "JOB_FILLED", <<>>)
                  ELSE [call[p] EXCEPT !.pc = "tx_existing",
                                       !.jobRow = currentJob])
    /\ UNCHANGED <<job, app, worker, now, fuel, needed0, consumed>>

\* Statement 3, inside the transaction: has this worker applied already?
acceptJob_txExisting(p) ==
    /\ call[p].op = "acceptJob" /\ call[p].pc = "tx_existing"
    /\ LET existing == app[<<call[p].jobId, call[p].phone>>]
       IN Step(p, IF existing.status # "NONE"
                  THEN Return(call[p], "ALREADY_APPLIED", <<>>)
                  ELSE [call[p] EXCEPT !.pc = "tx_write"])
    /\ UNCHANGED <<job, app, worker, now, fuel, needed0, consumed>>

\* The status the transaction writes with the decrement: computed from the
\* row it read in statement 2.
StatusAfterAccept(currentJob) ==
    IF currentJob.workersNeeded <= 1 THEN "FILLED" ELSE "OPEN"

\* The acceptance notice to the contractor: it states the count the update
\* returned.
AcceptedNotice(contractor, remaining) ==
    [to |-> contractor, kind |-> "accepted", otp |-> NoOtp, count |-> remaining]

\* Statements 4 and 5 and the commit: create the application, decrement the
\* counter.  The insert stays invisible until the commit and the UPDATE holds
\* the row lock until the commit, so the three are one step.  The unique
\* constraint (jobId, workerPhone) rejects a duplicate insert: the
\* transaction rolls back and the catch-all answers.  After the commit the
\* contractor's notices are enqueued synchronously.
acceptJob_txWrite(p) ==
    /\ call[p].op = "acceptJob" /\ call[p].pc = "tx_write"
    /\ LET j == call[p].jobId
           key == <<call[p].jobId, call[p].phone>>
           updatedJob == [job[j] EXCEPT
                            !.workersNeeded = job[j].workersNeeded - 1,
                            !.status = StatusAfterAccept(call[p].jobRow)]
           contractor == call[p].jobRow.contractorPhone
       IN IF app[key].status # "NONE"
          THEN /\ Step(p, Return(call[p], "ERROR", <<>>))
               /\ UNCHANGED <<job, app>>
          ELSE /\ app' = [app EXCEPT ![key] = [NoApp EXCEPT !.status = "ACCEPTED"]]
               /\ job' = [job EXCEPT ![j] = updatedJob]
               /\ Step(p, Return(call[p], "SUCCESS",
                                  <<AcceptedNotice(contractor,
                                                   updatedJob.workersNeeded)>> \o
                                  (IF updatedJob.status = "FILLED"
                                   THEN <<Msg(contractor, "filled", NoOtp)>>
                                   ELSE <<>>)))
    /\ UNCHANGED <<worker, now, fuel, needed0, consumed>>

NextAccept ==
    \/ \E c \in Contractors, k \in 1..MaxNeeded : createJob(c, k)
    \/ \E p \in Procs, w \in Workers, a \in JobArgs : acceptJob_find(p, w, a)
    \/ \E p \in Procs : acceptJob_txJob(p)
    \/ \E p \in Procs : acceptJob_txExisting(p)
    \/ \E p \in Procs : acceptJob_txWrite(p)

SpecAccept == Init /\ [][NextAccept]_vars

\* ------------------------------------------------- job posting (post_job)
\* The post_job tool: one prisma.job.create; status defaults to OPEN.
post_job(contractorPhone, workersNeeded, startDate, endDate) ==
    /\ Cardinality({i \in JobIds : job[i].status # "NONE"}) < MaxJobs
    /\ \E j \in JobIds :
        /\ NewJobId(j)
        /\ job' = [job EXCEPT ![j] = [contractorPhone |-> contractorPhone,
                                      status |-> "OPEN",
                                      workersNeeded |-> workersNeeded,
                                      startDate |-> startDate,
                                      endDate |-> endDate]]
        /\ needed0' = [needed0 EXCEPT ![j] = workersNeeded]
    /\ reply' = Idle
    /\ UNCHANGED <<app, worker, now, call, fuel, consumed>>
    /\ UNCHANGED flowVars

\* The wall clock advances (a day).
Tick ==
    /\ now < MaxTime
    /\ now' = now + 1
    /\ reply' = Idle
    /\ UNCHANGED <<job, app, worker, call, fuel, needed0, consumed>>
    /\ UNCHANGED flowVars

\* ------------------------------------------- acceptance + OTP (respond_to_job)
\* The code lives 24 hours.
OTP_TTL_DAYS == 1

\* History, for the properties of a confirmed record: the worker's
\* Application for the job was confirmed when the call began; and for the
\* end-to-end protocol: the worker held the job through acceptJob.
RespondPre(jobId, workerPhone) ==
    (IF /\ workerPhone \in Workers
        /\ app[<<jobId, workerPhone>>].status = "CONTRACTOR_CONFIRMED"
     THEN {"confirmed"} ELSE {})
    \cup
    (IF /\ workerPhone \in Workers
        /\ app[<<jobId, workerPhone>>].status = "ACCEPTED"
     THEN {"assigned"} ELSE {})

\* Statement 1: the job must exist and be OPEN.
respond_to_job_job(p, jobId, workerPhone) ==
    /\ Free(p)
    /\ LET rec == [Idle EXCEPT !.op = "respond_to_job", !.phone = workerPhone,
                               !.jobId = jobId,
                               !.pre = RespondPre(jobId, workerPhone)]
       IN IF job[jobId].status = "NONE"
          THEN Begin(p, Return(rec, "JOB_NOT_FOUND", <<>>))
          ELSE IF job[jobId].status # "OPEN"
          THEN Begin(p, Return(rec, "JOB_NOT_OPEN", <<>>))
          ELSE Begin(p, [rec EXCEPT !.pc = "r_worker", !.jobRow = job[jobId]])
    /\ UNCHANGED <<job, app, worker, now, needed0, consumed>>

\* availableFrom in the future: the worker is busy.
Busy(w) == w.availableFrom # Null /\ w.availableFrom > now

\* Statement 2: the worker must exist and be available; then the code and
\* its expiry are drawn (Math.random, Date.now() + 24 h).
respond_to_job_worker(p) ==
    /\ call[p].op = "respond_to_job" /\ call[p].pc = "r_worker"
    /\ IF call[p].phone \notin Workers
       THEN Step(p, Return(call[p], "WORKER_NOT_FOUND", <<>>))
       ELSE IF Busy(worker[call[p].phone])
       THEN Step(p, Return(call[p], "WORKER_BUSY", <<>>))
       ELSE \E otp \in Otps :
              Step(p, [call[p] EXCEPT !.pc = "r_upsert", !.otp = otp,
                                      !.otpExpiresAt = now + OTP_TTL_DAYS])
    /\ UNCHANGED <<job, app, worker, now, fuel, needed0, consumed>>

\* The row application.upsert writes: `update` sets the three columns on an
\* existing row whatever its status, `create` inserts them with the schema's
\* defaults.
RespondUpsert(row, otp, otpExpiresAt) ==
    [row EXCEPT !.status = "WORKER_ACCEPTED", !.otp = otp,
                !.otpExpiresAt = otpExpiresAt]

\* The two notices of an acceptance: the code to the worker, and to the
\* contractor the worker's name with the request to ask for the code.
RespondNotices(rec) ==
    <<Msg(rec.phone, "otp", rec.otp),
      NamedMsg(rec.jobRow.contractorPhone, "worker_accepted",
               identity[rec.phone].name)>>

\* Statement 3: the upsert; then the code goes to the worker, and (after the
\* read of the contractor's language) the acceptance notice to the contractor.
respond_to_job_upsert(p) ==
    /\ call[p].op = "respond_to_job" /\ call[p].pc = "r_upsert"
    /\ LET key == <<call[p].jobId, call[p].phone>>
       IN /\ app' = [app EXCEPT ![key] =
                       RespondUpsert(@, call[p].otp, call[p].otpExpiresAt)]
          /\ consumed' = [consumed EXCEPT ![call[p].otp] = Null]
          /\ Step(p, Return([call[p] EXCEPT !.appKey = key], "SUCCESS",
                             RespondNotices(call[p])))
    /\ UNCHANGED <<job, worker, now, fuel, needed0>>

\* ------------------------------------------- worker search (search_workers)
\* The workers worker.findMany returns: availableFrom null or not after now
\* (all workers are onboarded, of the searched city and skill).
AvailableWorkers ==
    {w \in Workers : worker[w].availableFrom = Null
                        \/ worker[w].availableFrom <= now}

\* The tool's one statement.
search_workers(p) ==
    /\ Free(p)
    /\ Begin(p, [Idle EXCEPT !.op = "search_workers", !.pc = "done",
                             !.result = "SUCCESS",
                             !.found = AvailableWorkers])
    /\ UNCHANGED <<job, app, worker, now, needed0, consumed>>

\* ------------------------------------------------ verification (verify_otp)
\* A lookup that forgets the expiry filter.
VerifyMatchesIgnoreExpiry(contractorPhone, otp) ==
    {k \in DOMAIN app :
        /\ app[k].otp = otp
        /\ app[k].status = "WORKER_ACCEPTED"
        /\ job[k[1]].contractorPhone = contractorPhone}

\* The Applications application.findFirst may return.
VerifyMatches(contractorPhone, otp) ==
    {k \in DOMAIN app :
        /\ app[k].otp = otp
        /\ app[k].status = "WORKER_ACCEPTED"
        /\ app[k].otpExpiresAt >= now
        /\ job[k[1]].contractorPhone = contractorPhone}

\* History, for the properties of a verification: what held of the ledger
\* when the lookup ran.
VerifyPre(contractorPhone, otp) ==
    (IF consumed[otp] # Null /\ now <= consumed[otp] THEN {"replay"} ELSE {})
    \cup
    (IF \E k \in DOMAIN app :
            /\ app[k].otp = otp /\ app[k].status = "WORKER_ACCEPTED"
            /\ app[k].otpExpiresAt < now
            /\ job[k[1]].contractorPhone = contractorPhone
     THEN {"expired"} ELSE {})
    \cup
    (IF \E k \in DOMAIN app :
            /\ app[k].otp = otp /\ app[k].status = "WORKER_ACCEPTED"
            /\ app[k].otpExpiresAt >= now
            /\ job[k[1]].contractorPhone # contractorPhone
     THEN {"foreign"} ELSE {})

\* History, for racing verifications: another verify_otp call has found the
\* same Application and has not returned.
VerifyRacing(k) ==
    IF \E q \in Procs : call[q].op = "verify_otp" /\ call[q].appKey = k
    THEN {"racing"} ELSE {}

\* Statement 1: look the code up.
verify_otp_find(p, contractorPhone, otp) ==
    /\ Free(p)
    /\ LET rec == [Idle EXCEPT !.op = "verify_otp", !.phone = contractorPhone,
                               !.otp = otp,
                               !.pre = VerifyPre(contractorPhone, otp)]
       IN IF VerifyMatches(contractorPhone, otp) = {}
          THEN Begin(p, Return(rec, "INVALID_OR_EXPIRED", <<>>))
          ELSE \E k \in VerifyMatches(contractorPhone, otp) :
                 Begin(p, [rec EXCEPT !.pc = "v_update", !.appKey = k,
                                      !.appRow = app[k], !.jobId = k[1],
                                      !.jobRow = job[k[1]],
                                      !.pre = @ \cup VerifyRacing(k)])
    /\ UNCHANGED <<job, app, worker, now, needed0, consumed>>

\* An update that leaves the code in place.
VerifyUpdateKeepOtp(row, at) ==
    [row EXCEPT !.status = "CONTRACTOR_CONFIRMED",
                !.attendanceStatus = "PRESENT",
                !.attendanceMarkedAt = at]

\* The row application.update writes on a match.
VerifyUpdate(row, at) ==
    [row EXCEPT !.status = "CONTRACTOR_CONFIRMED",
                !.attendanceStatus = "PRESENT",
                !.attendanceMarkedAt = at,
                !.otp = NoOtp, !.otpExpiresAt = Null]

\* Statement 2: mark the application confirmed.
verify_otp_update(p) ==
    /\ call[p].op = "verify_otp" /\ call[p].pc = "v_update"
    /\ app' = [app EXCEPT ![call[p].appKey] = VerifyUpdate(@, now)]
    /\ Step(p, [call[p] EXCEPT !.pc = "v_worker"])
    /\ UNCHANGED <<job, worker, now, fuel, needed0, consumed>>

\* An availability taken from the job's start date.
AvailableFromStart(jobRow) == jobRow.startDate

\* The availability worker.update writes: the end date of the job read with
\* the application.
AvailableFromEnd(jobRow) == jobRow.endDate

\* Statement 3: the worker is busy until the job's end date.
verify_otp_worker(p) ==
    /\ call[p].op = "verify_otp" /\ call[p].pc = "v_worker"
    /\ worker' = [worker EXCEPT ![call[p].appKey[2]] =
                    [@ EXCEPT !.availableFrom = AvailableFromEnd(call[p].jobRow)]]
    /\ Step(p, [call[p] EXCEPT !.pc = "v_count"])
    /\ UNCHANGED <<job, app, now, fuel, needed0, consumed>>

\* A count that takes accepted applications for confirmed ones.
AcceptedOrConfirmedCount(j) ==
    Cardinality({w \in Workers :
        app[<<j, w>>].status \in {"WORKER_ACCEPTED", "CONTRACTOR_CONFIRMED"}})

\* application.count where jobId, status CONTRACTOR_CONFIRMED.
ConfirmedCount(j) ==
    Cardinality({w \in Workers : app[<<j, w>>].status = "CONTRACTOR_CONFIRMED"})

\* The handler's last synchronous stretch: the worker's notice, the reply.
VerifyDone(rec) ==
    Return(rec, "SUCCESS", <<Msg(rec.appKey[2], "attendance_confirmed", NoOtp)>>)

VerifyConsumed(rec) ==
    [consumed EXCEPT ![rec.otp] =
        IF @ = Null \/ @ < rec.appRow.otpExpiresAt
        THEN rec.appRow.otpExpiresAt ELSE @]

\* Statement 4: count the job's confirmed applications against the
\* workersNeeded read with the application.
verify_otp_count(p) ==
    /\ call[p].op = "verify_otp" /\ call[p].pc = "v_count"
    /\ IF ConfirmedCount(call[p].jobId) >= call[p].jobRow.workersNeeded
       THEN /\ Step(p, [call[p] EXCEPT !.pc = "v_filled"])
            /\ UNCHANGED consumed
       ELSE /\ Step(p, VerifyDone(call[p]))
            /\ consumed' = VerifyConsumed(call[p])
    /\ UNCHANGED <<job, app, worker, now, fuel, needed0>>

\* Statement 5: the job is filled.
verify_otp_filled(p) ==
    /\ call[p].op = "verify_otp" /\ call[p].pc = "v_filled"
    /\ job' = [job EXCEPT ![call[p].jobId] = [@ EXCEPT !.status = "FILLED"]]
    /\ Step(p, VerifyDone(call[p]))
    /\ consumed' = VerifyConsumed(call[p])
    /\ UNCHANGED <<app, worker, now, fuel, needed0>>

\* ------------------------------------------ cancellation (cancel_application)
\* History, for the properties of a cancellation: the application was
\* accepted and not yet confirmed when the call began.
CancelPre(key) ==
    IF app[key].status = "WORKER_ACCEPTED" THEN {"unconfirmed"} ELSE {}

\* Statement 1: the application must exist and not be confirmed or completed.
cancel_application_find(p, jobId, workerPhone, cancelledBy) ==
    /\ Free(p)
    /\ LET key == <<jobId, workerPhone>>
           rec == [Idle EXCEPT !.op = "cancel_application",
                               !.phone = workerPhone, !.jobId = jobId,
                               !.by = cancelledBy, !.appKey = key,
                               !.appRow = app[key], !.pre = CancelPre(key)]
       IN IF app[key].status = "NONE"
          THEN Begin(p, Return(rec, "APPLICATION_NOT_FOUND", <<>>))
          ELSE IF app[key].status \in {"CONTRACTOR_CONFIRMED", "COMPLETED"}
          THEN Begin(p, Return(rec, "CANNOT_CANCEL", <<>>))
          ELSE Begin(p, [rec EXCEPT !.pc = "x_update", !.jobRow = job[jobId]])
    /\ UNCHANGED <<job, app, worker, now, needed0, consumed>>

\* A cancellation that leaves the code in place.
CancelUpdateKeepOtp(row, cancelledBy) ==
    [row EXCEPT !.status = "CANCELLED", !.cancelledBy = cancelledBy]

\* The row application.update writes.
CancelUpdate(row, cancelledBy) ==
    [row EXCEPT !.status = "CANCELLED", !.cancelledBy = cancelledBy,
                !.otp = NoOtp, !.otpExpiresAt = Null]

\* A notice that always goes to the worker.
CancelNoticeToWorker(rec) ==
    Msg(rec.phone, "contractor_cancelled", NoOtp)

\* Whom the cancellation notice goes to.
CancelNotice(rec) ==
    IF rec.by = "worker"
    THEN NamedMsg(rec.jobRow.contractorPhone, "worker_cancelled",
                  identity[rec.phone].name)
    ELSE Msg(rec.phone, "contractor_cancelled", NoOtp)

\* A cancellation that gives the slot back to the job.
cancel_application_reopening(p) ==
    /\ call[p].op = "cancel_application" /\ call[p].pc = "x_update"
    /\ app' = [app EXCEPT ![call[p].appKey] = CancelUpdate(@, call[p].by)]
    /\ job' = [job EXCEPT ![call[p].jobId] =
                 [@ EXCEPT !.status = "OPEN", !.workersNeeded = @ + 1]]
    /\ Step(p, Return(call[p], "SUCCESS", <<CancelNotice(call[p])>>))
    /\ UNCHANGED <<worker, now, fuel, needed0, consumed>>

\* Statement 2: the update; then the other party's notice.
cancel_application_update(p) ==
    /\ call[p].op = "cancel_application" /\ call[p].pc = "x_update"
    /\ app' = [app EXCEPT ![call[p].appKey] = CancelUpdate(@, call[p].by)]
    /\ Step(p, Return(call[p], "SUCCESS", <<CancelNotice(call[p])>>))
    /\ UNCHANGED <<job, worker, now, fuel, needed0, consumed>>

\* Phone numbers with no row in the worker directory.
Unregistered == {999}

NextOtp ==
    \/ \E c \in Contractors, k \in 1..MaxNeeded, s \in Dates, e \in Dates :
          s <= e /\ post_job(c, k, s, e)
    \/ Tick
    \/ \E p \in Procs, j \in JobIds, w \in Workers \cup Unregistered :
          respond_to_job_job(p, j, w)
    \/ \E p \in Procs : respond_to_job_worker(p)
    \/ \E p \in Procs : respond_to_job_upsert(p)
    \/ \E p \in Procs, c \in Contractors, o \in Otps : verify_otp_find(p, c, o)
    \/ \E p \in Procs : verify_otp_update(p)
    \/ \E p \in Procs : verify_otp_worker(p)
    \/ \E p \in Procs : verify_otp_count(p)
    \/ \E p \in Procs : verify_otp_filled(p)
    \/ \E p \in Procs, j \in JobIds, w \in Workers, by \in {"worker", "contractor"} :
          cancel_application_find(p, j, w, by)
    \/ \E p \in Procs : cancel_application_update(p)

Spec == Init /\ [][NextOtp]_vars

\* ------------------------------------------------------- the seeded database
\* prisma/seed.ts: two demo jobs of two contractors, two workers wanted for
\* the first and one for the second, the second starting and ending later.
DEMO_JOBS ==
    (<<1, 1>> :> [contractorPhone |-> 201, status |-> "OPEN",
                  workersNeeded |-> 2, startDate |-> 0, endDate |-> 2]) @@
    (<<1, 2>> :> [contractorPhone |-> 202, status |-> "OPEN",
                  workersNeeded |-> 1, startDate |-> 1, endDate |-> 3])

InitSeed ==
    /\ job = DEMO_JOBS
    /\ app = [k \in JobIds \X Workers |-> NoApp]
    /\ worker = [w \in Workers |-> [availableFrom |-> Null]]
    /\ now = 0
    /\ call = [p \in Procs |-> Idle]
    /\ reply = Idle
    /\ fuel = MaxSeedCalls
    /\ needed0 = [j \in JobIds |-> DEMO_JOBS[j].workersNeeded]
    /\ consumed = [o \in Otps |-> Null]
    /\ NoFlow

NextSeed ==
    \/ Tick
    \/ \E p \in Procs, j \in JobIds, w \in Workers : respond_to_job_job(p, j, w)
    \/ \E p \in Procs : respond_to_job_worker(p)
    \/ \E p \in Procs : respond_to_job_upsert(p)
    \/ \E p \in Procs, c \in Contractors, o \in Otps : verify_otp_find(p, c, o)
    \/ \E p \in Procs : verify_otp_update(p)
    \/ \E p \in Procs : verify_otp_worker(p)
    \/ \E p \in Procs : verify_otp_count(p)
    \/ \E p \in Procs : verify_otp_filled(p)
    \/ \E p \in Procs : search_workers(p)

SpecSeed == InitSeed /\ [][NextSeed]_vars

\* ------------------------------------------- job status (updateJobStatus)
\* The status column is a free string; these are the values the code uses.
JobStatuses == {"OPEN", "FILLED", "CANCELLED"}

\* A variant that gives a place back when it reopens the job.
StatusUpdateRestoringPlace(row, status) ==
    [row EXCEPT !.status = status,
                !.workersNeeded = IF status = "OPEN" THEN @ + 1 ELSE @]

\* data: { status } -- the status column alone.
StatusUpdate(row, status) == [row EXCEPT !.status = status]

\* jobService.updateJobStatus: one prisma.job.update of the status column
\* alone, whatever the row's status is; a missing row makes the update throw
\* and the catch answers null.
updateJobStatus(p, jobId, status) ==
    /\ Free(p)
    /\ LET rec == [Idle EXCEPT !.op = "updateJobStatus", !.jobId = jobId]
       IN IF job[jobId].status = "NONE"
          THEN /\ Begin(p, Return(rec, "ERROR", <<>>))
               /\ job' = job
          ELSE /\ job' = [job EXCEPT ![jobId] = StatusUpdate(@, status)]
               /\ Begin(p, Return(rec, "SUCCESS", <<>>))
    /\ UNCHANGED <<app, worker, now, needed0, consumed>>

\* ------------------------------------------- every writer of the Job ledger
\* The seeded database with every operation that reads or writes a Job row:
\* both acceptance paths, verification, cancellation, the status update.
InitJobs ==
    /\ job = DEMO_JOBS
    /\ app = [k \in JobIds \X Workers |-> NoApp]
    /\ worker = [w \in Workers |-> [availableFrom |-> Null]]
    /\ now = 0
    /\ call = [p \in Procs |-> Idle]
    /\ reply = Idle
    /\ fuel = MaxCalls
    /\ needed0 = [j \in JobIds |-> DEMO_JOBS[j].workersNeeded]
    /\ consumed = [o \in Otps |-> Null]
    /\ NoFlow

NextJobs ==
    \/ Tick
    \/ \E p \in Procs, w \in Workers, a \in JobArgs : acceptJob_find(p, w, a)
    \/ \E p \in Procs : acceptJob_txJob(p)
    \/ \E p \in Procs : acceptJob_txExisting(p)
    \/ \E p \in Procs : acceptJob_txWrite(p)
    \/ \E p \in Procs, j \in JobIds, w \in Workers : respond_to_job_job(p, j, w)
    \/ \E p \in Procs : respond_to_job_worker(p)
    \/ \E p \in Procs : respond_to_job_upsert(p)
    \/ \E p \in Procs, c \in Contractors, o \in Otps : verify_otp_find(p, c, o)
    \/ \E p \in Procs : verify_otp_update(p)
    \/ \E p \in Procs : verify_otp_worker(p)
    \/ \E p \in Procs : verify_otp_count(p)
    \/ \E p \in Procs : verify_otp_filled(p)
    \/ \E p \in Procs, j \in JobIds, w \in Workers, by \in {"worker", "contractor"} :
          cancel_application_find(p, j, w, by)
    \/ \E p \in Procs : cancel_application_update(p)
    \/ \E p \in Procs, j \in JobIds, st \in JobStatuses : updateJobStatus(p, j, st)

SpecJobs == InitJobs /\ [][NextJobs]_vars

\* ====================================================== conversational flows
\* A text is the sequence of its characters.  The replies a user sends:
\* blank, too short for every step, padded and in upper case, the bypass
\* words, counts inside and outside [1,100], digits followed by other
\* characters.
Replies ==
    { <<" ">>,
      <<"a">>,
      <<" ", "A", "b", " ">>,
      <<"a", "b", "c">>,
      <<"S", "k", "i", "p", " ">>,
      <<"n", "o">>,
      <<"3">>,
      <<"0">>,
      <<"1", "0", "0">>,
      <<"1", "0", "1">>,
      <<"3", "x">>,
      <<"2", ".", "5">> }

isSpace(c) == c = " "

RECURSIVE trimStart(_)
trimStart(t) ==
    IF t # <<>> /\ isSpace(Head(t)) THEN trimStart(Tail(t)) ELSE t

RECURSIVE trimEnd(_)
trimEnd(t) ==
    IF t # <<>> /\ isSpace(t[Len(t)])
    THEN trimEnd(SubSeq(t, 1, Len(t) - 1))
    ELSE t

\* String.prototype.trim
trim(t) == trimEnd(trimStart(t))

lower(c) ==
    CASE c = "A" -> "a"
      [] c = "S" -> "s"
      [] c = "N" -> "n"
      [] c = "O" -> "o"
      [] OTHER -> c

\* String.prototype.toLowerCase
toLowerCase(t) == [i \in 1..Len(t) |-> lower(t[i])]

Digits ==
    ("0" :> 0) @@ ("1" :> 1) @@ ("2" :> 2) @@ ("3" :> 3) @@ ("4" :> 4) @@
    ("5" :> 5) @@ ("6" :> 6) @@ ("7" :> 7) @@ ("8" :> 8) @@ ("9" :> 9)

isDigit(c) == c \in DOMAIN Digits

RECURSIVE digitsValue(_, _)
digitsValue(t, acc) ==
    IF t # <<>> /\ isDigit(Head(t))
    THEN digitsValue(Tail(t), acc * 10 + Digits[Head(t)])
    ELSE acc

\* parseInt(text, 10): leading white space is skipped, a sign is taken, then
\* the longest run of digits is read and whatever follows it is ignored; no
\* digit at that place gives NaN.
parseInt(t) ==
    LET u == trimStart(t)
        signed == u # <<>> /\ Head(u) \in {"-", "+"}
        v == IF signed THEN Tail(u) ELSE u
    IN IF v = <<>> \/ ~isDigit(Head(v))
       THEN [isNaN |-> TRUE, n |-> 0]
       ELSE [isNaN |-> FALSE,
             n |-> IF signed /\ Head(u) = "-"
                   THEN 0 - digitsValue(v, 0)
                   ELSE digitsValue(v, 0)]

\* Step names, word by word, so that startsWith is computed on them.
start == <<"start">>
awaiting_name == <<"awaiting", "name">>
awaiting_skill == <<"awaiting", "skill">>
awaiting_location == <<"awaiting", "location">>
awaiting_id_image == <<"awaiting", "id", "image">>
start_job == <<"start", "job">>
awaiting_job == <<"awaiting", "job">>
awaiting_job_title == <<"awaiting", "job", "title">>
awaiting_skill_required == <<"awaiting", "skill", "required">>
awaiting_wage == <<"awaiting", "wage">>
awaiting_job_location == <<"awaiting", "job", "location">>
awaiting_workers_needed == <<"awaiting", "workers", "needed">>

\* stateService.setState: the row the upsert leaves.
setState(currentStep, contextData, role) ==
    [currentStep |-> currentStep, contextData |-> contextData, role |-> role]

\* What a handler did: the Conversation State row it leaves (NoState once
\* cleared), the terminal step it ran with the context it ran it on, and
\* the message it answers.
Outcome(st, effect, ctx, code) ==
    [st |-> st, effect |-> effect, ctx |-> ctx, code |-> code]

\* workerService.handleRegistration
handleRegistration(st, text) ==
    LET currentStep == IF st.currentStep = <<>> THEN start ELSE st.currentStep
        context == st.contextData
        keep(code) == Outcome(st, "none", context, code)
        next(step, ctx, code) ==
            Outcome(setState(step, ctx, "worker"), "none", ctx, code)
    IN CASE currentStep = start ->
              next(awaiting_name, context, "ASK_NAME")
         [] currentStep = awaiting_name ->
              IF Len(trim(text)) < 2
              THEN keep("INVALID_NAME")
              ELSE next(awaiting_skill, [context EXCEPT !.name = trim(text)],
                        "ASK_SKILL")
         [] currentStep = awaiting_skill ->
              IF Len(toLowerCase(trim(text))) < 2
              THEN keep("INVALID_SKILL")
              ELSE next(awaiting_location,
                        [context EXCEPT !.skill = toLowerCase(trim(text))],
                        "ASK_LOCATION")
         [] currentStep = awaiting_location ->
              IF Len(trim(text)) < 2
              THEN keep("INVALID_LOCATION")
              ELSE next(awaiting_id_image,
                        [context EXCEPT !.location = trim(text)], "ASK_ID_IMAGE")
         [] currentStep = awaiting_id_image ->
              IF trim(toLowerCase(text)) \in {<<"s", "k", "i", "p">>, <<"n", "o">>}
              THEN Outcome(NoState, "completeRegistration", context, "REGISTERED")
              ELSE keep("ASK_ID_IMAGE_AGAIN")
         [] OTHER -> keep("REGISTRATION_WENT_WRONG")

\* The URL of a stored image.
Uploaded == <<"url">>

\* The name the vision model reads off the card, if any.
OcrNames == {Absent, <<"R", "a", "m">>}

\* A variant in which the name on the card replaces the name typed.
OcrNameWins(name, idName) ==
    IF idName # Absent THEN idName ELSE name

\* The OCR name fills the context's name only where there is none.
BackfillName(name, idName) ==
    IF idName # Absent /\ name = Absent THEN idName ELSE name

\* workerService.handleIdImageUpload
handleIdImageUpload(st, idName) ==
    IF st.currentStep # awaiting_id_image
    THEN Outcome(st, "none", st.contextData, "IMAGE_NOT_EXPECTED")
    ELSE Outcome(NoState, "completeRegistration",
                 [st.contextData EXCEPT !.idImageUrl = Uploaded,
                                        !.name = BackfillName(@, idName)],
                 "REGISTERED_WITH_ID")

\* The value a created Identity row's isOnboarded takes when the create
\* names none.
IsOnboardedDefault == FALSE

\* workerService.completeRegistration: the worker upsert.  The update branch
\* writes name, skill, location, language and image; the create branch
\* writes role 'worker' too.  Neither names isOnboarded.
completeRegistration(row, context) ==
    [row EXCEPT !.name = context.name,
                !.skill = context.skill,
                !.location = context.location,
                !.idImageUrl = context.idImageUrl,
                !.role = IF row.role = "none" THEN "worker" ELSE @,
                !.isOnboarded = IF row.role = "none" THEN IsOnboardedDefault ELSE @]

\* Whether the count read off the reply is refused.
CountRefused(count) == count.isNaN \/ count.n < 1 \/ count.n > 100

\* jobService.handleJobPosting
handleJobPosting(st, text) ==
    LET currentStep == IF st.currentStep = <<>> THEN start_job ELSE st.currentStep
        context == st.contextData
        keep(code) == Outcome(st, "none", context, code)
        next(step, ctx, code) ==
            Outcome(setState(step, ctx, "contractor"), "none", ctx, code)
    IN CASE currentStep = start_job ->
              next(awaiting_job_title, context, "ASK_TITLE")
         [] currentStep = awaiting_job_title ->
              IF Len(trim(text)) < 3
              THEN keep("INVALID_TITLE")
              ELSE next(awaiting_skill_required,
                        [context EXCEPT !.title = trim(text)], "ASK_SKILL_REQUIRED")
         [] currentStep = awaiting_skill_required ->
              IF Len(toLowerCase(trim(text))) < 2
              THEN keep("INVALID_SKILL_REQUIRED")
              ELSE next(awaiting_wage,
                        [context EXCEPT !.skillRequired = toLowerCase(trim(text))],
                        "ASK_WAGE")
         [] currentStep = awaiting_wage ->
              IF Len(trim(text)) < 1
              THEN keep("INVALID_WAGE")
              ELSE next(awaiting_job_location,
                        [context EXCEPT !.wage = trim(text)], "ASK_JOB_LOCATION")
         [] currentStep = awaiting_job_location ->
              IF Len(trim(text)) < 2
              THEN keep("INVALID_JOB_LOCATION")
              ELSE next(awaiting_workers_needed,
                        [context EXCEPT !.location = trim(text)],
                        "ASK_WORKERS_NEEDED")
         [] currentStep = awaiting_workers_needed ->
              LET count == parseInt(trim(text))
              IN IF CountRefused(count)
                 THEN keep("INVALID_WORKERS_NEEDED")
                 ELSE Outcome(NoState, "createJob",
                              [context EXCEPT !.workersNeeded = count.n],
                              "JOB_POSTED")
         [] OTHER -> keep("POSTING_WENT_WRONG")

\* The step names the router sends to each flow, as prefixes.
RegistrationPrefixes ==
    {awaiting_name, awaiting_skill, awaiting_location, awaiting_id_image}

PostingPrefixes ==
    {awaiting_job, awaiting_skill_required, awaiting_wage, awaiting_workers_needed}

\* messageHandler.handleStatefulMessage: the registration prefixes are tried
\* first, then the posting prefixes; a step that matches none is cleared.
handleStatefulMessage(st, text) ==
    IF \E pre \in RegistrationPrefixes : startsWith(st.currentStep, pre)
    THEN handleRegistration(st, text)
    ELSE IF \E pre \in PostingPrefixes : startsWith(st.currentStep, pre)
    THEN handleJobPosting(st, text)
    ELSE Outcome(NoState, "none", st.contextData, "LOST_TRACK")

\* jobService.createJob, the worker upsert: update writes role 'contractor',
\* create writes the name 'Contractor' too.
EnsureContractor(row) ==
    [row EXCEPT !.role = "contractor",
                !.name = IF row.role = "none"
                         THEN <<"C", "o", "n", "t", "r", "a", "c", "t", "o", "r">>
                         ELSE @,
                !.isOnboarded = IF row.role = "none" THEN IsOnboardedDefault ELSE @]

\* The handler's writes reach the tables and its answer is sent.  The
\* terminal step of registration upserts the Identity and clears the state;
\* the terminal step of posting upserts the contractor, creates the OPEN
\* job, clears the state and triggers matching for the job.
Deliver(ph, text, out) ==
    /\ fuel' = fuel - 1
    /\ state' = [state EXCEPT ![ph] = out.st]
    /\ LET answer == [Idle EXCEPT !.op = "handleMessage", !.pc = "done",
                                  !.phone = ph, !.arg = text,
                                  !.result = out.code]
       IN CASE out.effect = "completeRegistration" ->
                 /\ identity' = [identity EXCEPT
                                   ![ph] = completeRegistration(@, out.ctx)]
                 /\ reply' = answer
                 /\ UNCHANGED <<job, posting, needed0>>
            [] out.effect = "createJob" ->
                 \E j \in JobIds :
                    /\ NewJobId(j)
                    /\ identity' = [identity EXCEPT ![ph] = EnsureContractor(@)]
                    /\ job' = [job EXCEPT ![j] =
                                 [contractorPhone |-> ph, status |-> "OPEN",
                                  workersNeeded |-> out.ctx.workersNeeded,
                                  startDate |-> Null, endDate |-> Null]]
                    /\ posting' = [posting EXCEPT ![j] =
                                     [title |-> out.ctx.title,
                                      skillRequired |-> out.ctx.skillRequired,
                                      wage |-> out.ctx.wage,
                                      location |-> out.ctx.location]]
                    /\ needed0' = [needed0 EXCEPT ![j] = out.ctx.workersNeeded]
                    /\ reply' = [answer EXCEPT
                                   !.jobId = j,
                                   !.sent = <<Msg(ph, "matchAndNotify", NoOtp)>>]
            [] OTHER ->
                 /\ reply' = answer
                 /\ UNCHANGED <<identity, job, posting, needed0>>
    /\ UNCHANGED <<app, worker, now, call, consumed, bq>>

\* What detectIntent makes of a message outside a flow.
Intents ==
    {"greeting", "register", "post_job", "accept_job", "job_search", "unknown"}

\* A variant of the router's test that sees the rows of registration only.
InFlowAsWorker(st) == st # NoState /\ st.role = "worker"

\* if (state): the phone holds a Conversation State row.
InFlow(st) == st # NoState

\* No job is OPEN.
NoOpenJob == \A j \in JobIds : job[j].status # "OPEN"

\* The intents that start no flow.  accept_job looks for a recent OPEN job
\* for the worker and job_search lists the OPEN jobs; with no OPEN job in
\* the ledger both only answer.
AnswerIntent(ph, intent) ==
    Outcome(NoState, "none", NoContext,
            CASE intent = "accept_job" -> "NO_OPEN_JOBS"
              [] intent = "job_search" ->
                    IF identity[ph].role = "none"
                    THEN "NOT_REGISTERED" ELSE "NO_JOBS_FOUND"
              [] OTHER -> "WELCOME")

\* messageHandler.handleMessage, a text message: blank text is dropped; a
\* phone with a Conversation State row goes to handleStatefulMessage; any
\* other goes by the detected intent.
handleMessage_text(ph, text, intent) ==
    /\ fuel > 0
    /\ intent \in {"accept_job", "job_search"} => NoOpenJob
    /\ Deliver(ph, text,
         IF trim(text) = <<>>
         THEN Outcome(state[ph], "none", state[ph].contextData, "DROPPED")
         ELSE IF InFlow(state[ph])
         THEN handleStatefulMessage(state[ph], text)
         ELSE IF intent \in {"greeting", "register"}
         THEN handleRegistration(NoState, text)
         ELSE IF intent = "post_job"
         THEN handleJobPosting(NoState, text)
         ELSE AnswerIntent(ph, intent))

\* messageHandler.handleMessage, an image message: at awaiting_id_image it is
\* the ID card, anywhere else it is acknowledged.  The answer's arg records
\* the name read off the image.
handleMessage_image(ph, idName) ==
    /\ fuel > 0
    /\ Deliver(ph, idName,
         IF state[ph].currentStep = awaiting_id_image
         THEN handleIdImageUpload(state[ph], idName)
         ELSE Outcome(state[ph], "none", state[ph].contextData, "IMAGE_ACKNOWLEDGED"))

\* The register_user tool: the Identity upsert.  The role is always written,
\* isOnboarded where it is given; a create without it writes false.
register_user(ph, role, isOnboarded) ==
    /\ fuel > 0
    /\ fuel' = fuel - 1
    /\ identity' = [identity EXCEPT
                      ![ph] = [@ EXCEPT
                                 !.role = role,
                                 !.isOnboarded =
                                     IF isOnboarded = "undefined"
                                     THEN (IF identity[ph].role = "none"
                                           THEN FALSE ELSE @)
                                     ELSE isOnboarded = "true"]]
    /\ reply' = [Idle EXCEPT !.op = "register_user", !.pc = "done",
                             !.phone = ph, !.result = "SUCCESS"]
    /\ UNCHANGED <<job, app, worker, now, call, needed0, consumed, state,
                   posting, bq>>

\* A fresh database.
InitFlow ==
    /\ job = [j \in JobIds |-> NoJob]
    /\ app = [k \in JobIds \X Workers |-> NoApp]
    /\ worker = [w \in Workers |-> [availableFrom |-> Null]]
    /\ now = 0
    /\ call = [p \in Procs |-> Idle]
    /\ reply = Idle
    /\ fuel = MaxMsgs
    /\ needed0 = [j \in JobIds |-> 0]
    /\ consumed = [o \in Otps |-> Null]
    /\ NoFlow

\* The bot as deployed: every message goes through the router.
NextFlow ==
    \/ \E ph \in Phones, text \in Replies, intent \in Intents :
          handleMessage_text(ph, text, intent)
    \/ \E ph \in Phones, idName \in OcrNames : handleMessage_image(ph, idName)
    \/ \E ph \in Phones, role \in {"worker", "contractor"},
          isOnboarded \in {"undefined", "true", "false"} :
          register_user(ph, role, isOnboarded)

SpecFlow == InitFlow /\ [][NextFlow]_vars

\* The two flow handlers on their own, each given the messages of the phones
\* that are at one of its steps or at none.
handleRegistration_call(ph, text) ==
    /\ fuel > 0
    /\ state[ph].role \in {"none", "worker"}
    /\ Deliver(ph, text, handleRegistration(state[ph], text))

handleJobPosting_call(ph, text) ==
    /\ fuel > 0
    /\ state[ph].role \in {"none", "contractor"}
    /\ Deliver(ph, text, handleJobPosting(state[ph], text))

NextHandlers ==
    \/ \E ph \in Phones, text \in Replies : handleRegistration_call(ph, text)
    \/ \E ph \in Phones, text \in Replies : handleJobPosting_call(ph, text)

SpecHandlers == InitFlow /\ [][NextHandlers]_vars

\* ================================================ matching (matchAndNotify)
\* Prisma's `contains`: the column holds the needle as a substring; a null
\* column matches nothing.
contains(hay, needle) ==
    /\ hay # Absent
    /\ \E i \in 1..(Len(hay) - Len(needle) + 1) :
          SubSeq(hay, i, i + Len(needle) - 1) = needle

\* contains with mode: 'insensitive'.
containsInsensitive(hay, needle) ==
    contains(toLowerCase(hay), toLowerCase(needle))

\* split(',')[0]
RECURSIVE firstSegment(_)
firstSegment(t) ==
    IF t = <<>> \/ Head(t) = ","
    THEN <<>>
    ELSE <<Head(t)>> \o firstSegment(Tail(t))

\* job.location.split(',')[0].trim(): the job's city.
jobCity(location) == trim(firstSegment(location))

\* Every enumeration of a set without repetition: the order in which the
\* datastore returns rows is its own.
Orders(S) ==
    {o \in [1..Cardinality(S) -> S] : \A i, k \in DOMAIN o : i # k => o[i] # o[k]}

\* The worker has the job's skill.
SkillMatches(w, j) ==
    /\ identity[w].role = "worker"
    /\ containsInsensitive(identity[w].skill, posting[j].skillRequired)

\* First pass: role worker, skill and location.
findMatchingWorkers(j) ==
    {w \in Workers :
        /\ SkillMatches(w, j)
        /\ containsInsensitive(identity[w].location, jobCity(posting[j].location))}

\* A second pass that finds nobody.
NoSkillOnly(j) == {}

\* Second pass: role worker and skill alone.
SkillOnly(j) == {w \in Workers : SkillMatches(w, j)}

\* A contractor who is told nothing.
NoNotice(contractorPhone) == <<>>

\* The notice to the contractor that no worker was found.
NoWorkersNotice(contractorPhone) == <<Msg(contractorPhone, "no_workers", NoOtp)>>

\* The loop over the workers found: one job notification each, in the order
\* of the result.
JobNotices(order) == [i \in DOMAIN order |-> Msg(order[i], "job", NoOtp)]

\* What matchAndNotify leaves: the workers it settled on and the messages it
\* enqueued.
Matched(j, workers, sent, pass) ==
    [Idle EXCEPT !.op = "matchAndNotify", !.pc = "done", !.jobId = j,
                 !.result = IF workers = {} THEN "NO_WORKERS" ELSE "NOTIFIED",
                 !.found = workers, !.sent = sent, !.pre = {pass}]

\* Statement 1: findMatchingWorkers; a result that is not empty is notified.
matchAndNotify_find(p, j) ==
    /\ Free(p)
    /\ job[j].status # "NONE"
    /\ LET workers == findMatchingWorkers(j)
       IN IF workers = {}
          THEN Begin(p, [Idle EXCEPT !.op = "matchAndNotify",
                                     !.pc = "m_skill", !.jobId = j,
                                     !.jobRow = job[j]])
          ELSE \E order \in Orders(workers) :
                  Begin(p, Matched(j, workers, JobNotices(order), "primary"))
    /\ UNCHANGED <<job, app, worker, now, needed0, consumed>>

\* Statement 2, after an empty first pass: the skill-only query; its result
\* is notified, and if it is empty too the contractor is told.
matchAndNotify_skill(p) ==
    /\ call[p].op = "matchAndNotify" /\ call[p].pc = "m_skill"
    /\ LET j == call[p].jobId
           workers == SkillOnly(j)
       IN IF workers = {}
          THEN Step(p, Matched(j, {},
                               NoWorkersNotice(call[p].jobRow.contractorPhone),
                               "fallback"))
          ELSE \E order \in Orders(workers) :
                  Step(p, Matched(j, workers, JobNotices(order), "fallback"))
    /\ UNCHANGED <<job, app, worker, now, fuel, needed0, consumed>>

\* The texts of the matching runs: a job skill and two job locations (a city
\* with an area after the comma, a bare city), worker skills that hold the
\* job's skill in another case or not at all, worker locations in either city.
JobSkills == {<<"s", "o">>}
JobLocations == {<<"N", "O", ",", " ", "A">>, <<" ", "a", "s">>}
WorkerSkills == {<<"A", "S", "O">>, <<"n", "a">>}
WorkerLocations == {<<"x", "n", "o">>, <<"A", "s">>}

\* One posted job; a directory of workers and contractors of any skill and
\* place, free or busy until day 1.
InitMatch ==
    /\ \E c \in Contractors :
          job = [j \in JobIds |->
                   IF j = <<1, 1>>
                   THEN [contractorPhone |-> c, status |-> "OPEN",
                         workersNeeded |-> 1, startDate |-> Null,
                         endDate |-> Null]
                   ELSE NoJob]
    /\ \E s \in JobSkills, l \in JobLocations :
          posting = [j \in JobIds |->
                       IF j = <<1, 1>>
                       THEN [NoPosting EXCEPT !.skillRequired = s, !.location = l]
                       ELSE NoPosting]
    /\ \E rows \in [Workers -> [role : {"worker", "contractor"},
                                skill : WorkerSkills,
                                location : WorkerLocations]] :
          identity = [u \in Phones \cup Workers |->
                        IF u \in Workers
                        THEN [NoIdentity EXCEPT !.role = rows[u].role,
                                                !.skill = rows[u].skill,
                                                !.location = rows[u].location]
                        ELSE NoIdentity]
    /\ worker \in [Workers -> [availableFrom : {Null, 1}]]
    /\ bq = IdleQueue
    /\ state = [ph \in Phones |-> NoState]
    /\ app = [k \in JobIds \X Workers |-> NoApp]
    /\ now = 0
    /\ call = [p \in Procs |-> Idle]
    /\ reply = Idle
    /\ fuel = MaxCalls
    /\ needed0 = [j \in JobIds |-> job[j].workersNeeded]
    /\ consumed = [o \in Otps |-> Null]

NextMatch ==
    \/ Tick
    \/ \E p \in Procs, j \in JobIds : matchAndNotify_find(p, j)
    \/ \E p \in Procs : matchAndNotify_skill(p)

SpecMatch == InitMatch /\ [][NextMatch]_vars

\* ------------------------------------------------- workers who have a name
\* The names in the worker directory: a worker who gave one at registration,
\* and one whose name column is null.
WorkerNames == {Absent, <<"A", "b">>}

InitNames ==
    /\ job = DEMO_JOBS
    /\ app = [k \in JobIds \X Workers |-> NoApp]
    /\ worker = [w \in Workers |-> [availableFrom |-> Null]]
    /\ now = 0
    /\ call = [p \in Procs |-> Idle]
    /\ reply = Idle
    /\ fuel = MaxCalls
    /\ needed0 = [j \in JobIds |-> DEMO_JOBS[j].workersNeeded]
    /\ consumed = [o \in Otps |-> Null]
    /\ state = [ph \in Phones |-> NoState]
    /\ bq = IdleQueue
    /\ \E names \in [Workers -> WorkerNames] :
          identity = [u \in Phones \cup Workers |->
                         IF u \in Workers
                         THEN [NoIdentity EXCEPT !.role = "worker",
                                                 !.name = names[u]]
                         ELSE NoIdentity]
    /\ posting = [j \in JobIds |-> NoPosting]

NextNames ==
    \/ Tick
    \/ \E p \in Procs, j \in JobIds, w \in Workers : respond_to_job_job(p, j, w)
    \/ \E p \in Procs : respond_to_job_worker(p)
    \/ \E p \in Procs : respond_to_job_upsert(p)
    \/ \E p \in Procs, c \in Contractors, o \in Otps : verify_otp_find(p, c, o)
    \/ \E p \in Procs : verify_otp_update(p)
    \/ \E p \in Procs : verify_otp_worker(p)
    \/ \E p \in Procs : verify_otp_count(p)
    \/ \E p \in Procs : verify_otp_filled(p)
    \/ \E p \in Procs, j \in JobIds, w \in Workers, by \in {"worker", "contractor"} :
          cancel_application_find(p, j, w, by)
    \/ \E p \in Procs : cancel_application_update(p)

SpecNames == InitNames /\ [][NextNames]_vars

\* ------------------------------------------------ a datastore call that fails
\* A statement of verify_otp throws (connection lost, timeout): the handler's
\* catch answers 'Failed to verify OTP'.  The statements are separate
\* autocommitted calls, so what the earlier ones wrote stays.
verify_otp_throw(p) ==
    /\ call[p].op = "verify_otp"
    /\ call[p].pc \in {"v_update", "v_worker", "v_count", "v_filled"}
    /\ Step(p, Return(call[p], "ERROR", <<>>))
    /\ UNCHANGED <<job, app, worker, now, fuel, needed0, consumed>>

\* A statement inside acceptJob's $transaction throws: the transaction is
\* rolled back, and the catch answers 'Something went wrong'.
acceptJob_throw(p) ==
    /\ call[p].op = "acceptJob"
    /\ call[p].pc \in {"tx_job", "tx_existing", "tx_write"}
    /\ Step(p, Return(call[p], "ERROR", <<>>))
    /\ UNCHANGED <<job, app, worker, now, fuel, needed0, consumed>>

NextFail ==
    \/ Tick
    \/ \E p \in Procs, w \in Workers, j \in JobIds : acceptJob_find(p, w, j)
    \/ \E p \in Procs : acceptJob_txJob(p)
    \/ \E p \in Procs : acceptJob_txExisting(p)
    \/ \E p \in Procs : acceptJob_txWrite(p)
    \/ \E p \in Procs : acceptJob_throw(p)
    \/ \E p \in Procs, j \in JobIds, w \in Workers : respond_to_job_job(p, j, w)
    \/ \E p \in Procs : respond_to_job_worker(p)
    \/ \E p \in Procs : respond_to_job_upsert(p)
    \/ \E p \in Procs, c \in Contractors, o \in Otps : verify_otp_find(p, c, o)
    \/ \E p \in Procs : verify_otp_update(p)
    \/ \E p \in Procs : verify_otp_worker(p)
    \/ \E p \in Procs : verify_otp_count(p)
    \/ \E p \in Procs : verify_otp_filled(p)
    \/ \E p \in Procs : verify_otp_throw(p)

SpecFail == InitJobs /\ [][NextFail]_vars

\* ================================================ the broadcast queue
\* The recipients of queued messages.
Jids == Workers

\* The ledgers and the flow tables, which the queue does not touch.
ledgerVars == <<job, app, worker, now, call, reply, fuel, needed0, consumed,
                state, identity, posting>>

\* A variant that takes the newest item.
pop(queue) ==
    [item |-> queue[Len(queue)], queue |-> SubSeq(queue, 1, Len(queue) - 1)]

\* queue.shift(): the oldest item, and the queue without it.
shift(queue) == [item |-> Head(queue), queue |-> Tail(queue)]

\* processQueue's loop from its condition up to its next await: shift the
\* head and call sendFn with it (the send attempt); without a send function
\* the item is only logged, and the loop sleeps if more is queued or goes
\* round to its condition; with nothing queued the loop ends.
RECURSIVE loopTurn(_)
loopTurn(q) ==
    IF Len(q.queue) = 0
    THEN [q EXCEPT !.isProcessing = FALSE, !.pc = "idle", !.active = @ - 1]
    ELSE IF q.sendFn
    THEN [q EXCEPT !.pc = "send", !.elapsed = FALSE,
                   !.queue = shift(q.queue).queue,
                   !.attempts = Append(@, shift(q.queue).item)]
    ELSE LET logged == [q EXCEPT !.queue = shift(q.queue).queue,
                                 !.dropped = Append(@, shift(q.queue).item)]
         IN IF Len(logged.queue) > 0
            THEN [logged EXCEPT !.pc = "sleep"]
            ELSE loopTurn(logged)

\* A variant of the guards under which every enqueue starts a loop.
alwaysStart(q) == TRUE

\* The guards of enqueue and of processQueue: no loop is running.
mayStart(q) == ~q.isProcessing

\* processQueue(): past the guard, set the flag and enter the loop.
processQueue(q) ==
    loopTurn([q EXCEPT !.isProcessing = TRUE, !.active = @ + 1])

\* enqueue(jid, text): push; start processQueue if no loop is running.  The
\* text is told apart by the number of the enqueue.
enqueue(jid) ==
    /\ Len(bq.enqueued) < MaxEnqueued
    /\ LET item == [jid |-> jid, text |-> Len(bq.enqueued) + 1]
           pushed == [bq EXCEPT !.queue = Append(@, item),
                                !.enqueued = Append(@, item)]
       IN bq' = IF mayStart(bq) THEN processQueue(pushed) ELSE pushed
    /\ UNCHANGED ledgerVars

\* A loop without the try/catch: a rejected send ends it with the flag set.
afterSendUncaught(q, ok) ==
    IF ok
    THEN IF Len(q.queue) > 0 THEN [q EXCEPT !.pc = "sleep"] ELSE loopTurn(q)
    ELSE [q EXCEPT !.pc = "dead",
                   !.thrown = @ \cup {q.attempts[Len(q.attempts)]}]

\* The loop after the awaited send: a rejection is caught and logged; then
\* sleep if something is queued, else round to the loop's condition.
afterSend(q, ok) ==
    LET logged == IF ok THEN q
                  ELSE [q EXCEPT !.thrown =
                                    @ \cup {q.attempts[Len(q.attempts)]}]
    IN IF Len(logged.queue) > 0
       THEN [logged EXCEPT !.pc = "sleep"]
       ELSE loopTurn(logged)

\* The awaited sendFn settles: resolved, or rejected.
sendFn_settles ==
    /\ bq.pc = "send"
    /\ \E ok \in BOOLEAN : bq' = afterSend(bq, ok)
    /\ UNCHANGED ledgerVars

\* MESSAGE_DELAY_MS is over: the loop's next turn.
sleep_ends ==
    /\ bq.pc = "sleep"
    /\ bq' = loopTurn([bq EXCEPT !.elapsed = TRUE])
    /\ UNCHANGED ledgerVars

\* The clock: MESSAGE_DELAY_MS has gone by since the last send attempt.
time_passes ==
    /\ ~bq.elapsed /\ bq.attempts # <<>>
    /\ bq' = [bq EXCEPT !.elapsed = TRUE]
    /\ UNCHANGED ledgerVars

NextQueue ==
    \/ \E jid \in Jids : enqueue(jid)
    \/ sendFn_settles
    \/ sleep_ends
    \/ time_passes

SpecQueue == InitFlow /\ [][NextQueue]_vars

\* init(sendMessage): the send function is set, once, at startup.
init ==
    /\ ~bq.sendFn
    /\ bq' = [bq EXCEPT !.sendFn = TRUE]
    /\ UNCHANGED ledgerVars

\* The module as loaded, before init: sendFn is null.
InitDrain ==
    /\ job = [j \in JobIds |-> NoJob]
    /\ app = [k \in JobIds \X Workers |-> NoApp]
    /\ worker = [w \in Workers |-> [availableFrom |-> Null]]
    /\ now = 0
    /\ call = [p \in Procs |-> Idle]
    /\ reply = Idle
    /\ fuel = 0
    /\ needed0 = [j \in JobIds |-> 0]
    /\ consumed = [o \in Otps |-> Null]
    /\ state = [ph \in Phones |-> NoState]
    /\ identity = [u \in Phones \cup Workers |-> NoIdentity]
    /\ posting = [j \in JobIds |-> NoPosting]
    /\ bq = [IdleQueue EXCEPT !.sendFn = FALSE]

NextDrain ==
    \/ \E jid \in Jids : enqueue(jid)
    \/ sendFn_settles
    \/ sleep_ends
    \/ time_passes
    \/ init

\* Every send call eventually returns or throws, and every delay ends.
SpecDrain ==
    /\ InitDrain /\ [][NextDrain]_vars
    /\ WF_vars(sendFn_settles) /\ WF_vars(sleep_ends)

\* ================================================================ properties
Accepted == {"ACCEPTED", "WORKER_ACCEPTED", "CONTRACTOR_CONFIRMED"}

AcceptedCount(j) ==
    Cardinality({w \in Workers : app[<<j, w>>].status \in Accepted})

\* C1 (capacity under races): whatever the interleaving of concurrent acceptJob
\* calls, a job never holds more accepted Applications than the workersNeeded
\* it was created with.
C1_CapacityUnderRaces ==
    \A j \in JobIds : AcceptedCount(j) <= needed0[j]

\* C2 (OTP single-use): a verify_otp call with a code whose verification
\* succeeded before, inside that code's expiry window and with no re-issuance
\* of the code since, fails with invalid-or-expired.
C2_OtpSingleUse ==
    (reply.op = "verify_otp" /\ "replay" \in reply.pre)
        => reply.result = "INVALID_OR_EXPIRED"

\* C3 (duplicate application): an acceptJob call by a worker who already holds
\* an Application for the job it names fails with ALREADY_APPLIED, not with
\* job-filled or not-found.
C3_DuplicateApplication ==
    (reply.op = "acceptJob" /\ "applied" \in reply.pre)
        => reply.result = "ALREADY_APPLIED"

\* C4 (expired OTP rejection): a verify_otp call whose code is stored on a
\* WORKER_ACCEPTED Application of the caller's own job with otpExpiresAt in
\* the past fails with invalid-or-expired.
C4_ExpiredOtpRejected ==
    (reply.op = "verify_otp" /\ "expired" \in reply.pre)
        => reply.result = "INVALID_OR_EXPIRED"

\* C5 (contractor scoping): a verify_otp call whose code is the correct,
\* unexpired code of an Application of another contractor's job fails with
\* invalid-or-expired.
C5_ContractorScoping ==
    (reply.op = "verify_otp" /\ "foreign" \in reply.pre)
        => reply.result = "INVALID_OR_EXPIRED"

C6_VerifyStep ==
    \A p \in Procs :
        (call[p].op = "verify_otp" /\ call[p].pc = "v_update"
            /\ call'[p].pc = "v_worker")
        => LET a == call[p].appKey
           IN /\ app'[a].status = "CONTRACTOR_CONFIRMED"
              /\ app'[a].attendanceStatus = "PRESENT"
              /\ app'[a].attendanceMarkedAt = now
              /\ app'[a].attendanceMarkedAt # Null
              /\ app'[a].otp = NoOtp
              /\ app'[a].otpExpiresAt = Null

C6_VerifyReply ==
    (reply.op = "verify_otp" /\ reply.result = "SUCCESS")
        => reply.sent = <<Msg(reply.appKey[2], "attendance_confirmed", NoOtp)>>

C7_OnlyVerifyConfirms ==
    \A a \in DOMAIN app :
        (app[a].status # "CONTRACTOR_CONFIRMED"
            /\ app'[a].status = "CONTRACTOR_CONFIRMED")
        => \E p \in Procs :
              /\ call[p].op = "verify_otp" /\ call[p].pc = "v_update"
              /\ call[p].appKey = a
              /\ call'[p].pc = "v_worker"

C7_VerifyLookup ==
    \A p \in Procs :
        (call[p].pc = "idle" /\ call'[p].op = "verify_otp")
        => LET a == call'[p].appKey
           IN /\ app[a].status = "WORKER_ACCEPTED"
              /\ app[a].otp # NoOtp
              /\ app[a].otp = call'[p].otp
              /\ app[a].otpExpiresAt >= now

C8_ConfirmedImmutable ==
    [][\A a \in DOMAIN app :
          app[a].status = "CONTRACTOR_CONFIRMED"
          => /\ app'[a].status = app[a].status
             /\ app'[a].attendanceStatus = app[a].attendanceStatus
             /\ app'[a].attendanceMarkedAt = app[a].attendanceMarkedAt]_vars

C8_Witness ==
    \E a \in DOMAIN app :
        /\ app[a].status = "WORKER_ACCEPTED"
        /\ app[a].attendanceStatus = "PRESENT"
        /\ reply.op = "respond_to_job" /\ reply.result = "SUCCESS"
        /\ "confirmed" \in reply.pre
        /\ reply.appKey = a

C9_CancelStep ==
    \A p \in Procs :
        (call[p].op = "cancel_application" /\ call[p].pc = "x_update"
            /\ call'[p].pc = "idle")
        => LET a == call[p].appKey
           IN /\ app'[a].status = "CANCELLED"
              /\ app'[a].cancelledBy = call[p].by
              /\ app'[a].otp = NoOtp
              /\ app'[a].otpExpiresAt = Null

C9_CancelReply ==
    /\ (reply.op = "cancel_application" /\ "unconfirmed" \in reply.pre)
           => reply.result = "SUCCESS"
    /\ (reply.op = "cancel_application" /\ reply.result = "SUCCESS")
           => /\ Len(reply.sent) = 1
              /\ reply.sent[1].to =
                    IF reply.by = "worker"
                    THEN job[reply.appKey[1]].contractorPhone
                    ELSE reply.appKey[2]

\* C9 (cancellation before confirmation): a cancel_application call on an
\* accepted, not yet confirmed Application succeeds; its update sets the
\* status CANCELLED, records the cancelling party and clears otp and
\* otpExpiresAt; the call enqueues exactly one notice, to the other party.
C9_CancelEffect ==
    []C9_CancelReply /\ [][C9_CancelStep]_vars

C9_Witness ==
    /\ reply.op = "cancel_application" /\ reply.result = "SUCCESS"
    /\ "unconfirmed" \in reply.pre
    /\ reply.by = "worker"
    /\ app[reply.appKey].status = "CANCELLED"

NoOtpStatuses == {"CONTRACTOR_CONFIRMED", "CANCELLED", "REJECTED", "COMPLETED"}

C11_ConfirmStep ==
    \A p \in Procs :
        (call[p].op = "verify_otp" /\ call[p].pc = "v_worker"
            /\ call'[p].pc # "v_worker")
        => worker'[call[p].appKey[2]].availableFrom
              = job[call[p].appKey[1]].endDate

C11_BusyRefused ==
    \A p \in Procs :
        (/\ call[p].op = "respond_to_job" /\ call[p].pc = "r_worker"
         /\ call'[p].pc # "r_worker"
         /\ call[p].phone \in Workers
         /\ worker[call[p].phone].availableFrom # Null
         /\ worker[call[p].phone].availableFrom > now)
        => /\ reply'.op = "respond_to_job" /\ reply'.result = "WORKER_BUSY"
           /\ app' = app

C11_SearchExcludes ==
    reply.op = "search_workers"
        => \A w \in Workers :
              (worker[w].availableFrom # Null /\ worker[w].availableFrom > now)
                  => w \notin reply.found

DatesOverlap(j1, j2) ==
    /\ job[j1].startDate <= job[j2].endDate
    /\ job[j2].startDate <= job[j1].endDate

\* C12 (no overlapping confirmations): no worker holds two
\* CONTRACTOR_CONFIRMED Applications whose jobs' [startDate, endDate] ranges
\* overlap.
C12_NoOverlappingConfirmations ==
    \A w \in Workers : \A j1, j2 \in JobIds :
        (/\ j1 # j2
         /\ app[<<j1, w>>].status = "CONTRACTOR_CONFIRMED"
         /\ app[<<j2, w>>].status = "CONTRACTOR_CONFIRMED")
        => ~DatesOverlap(j1, j2)

C13_Confirmed(j) ==
    {w \in Workers : app[<<j, w>>].status = "CONTRACTOR_CONFIRMED"}

C13_FilledAfter ==
    (/\ reply.op = "verify_otp" /\ reply.result = "SUCCESS"
     /\ Cardinality(C13_Confirmed(reply.jobId)) >= job[reply.jobId].workersNeeded)
    => job[reply.jobId].status = "FILLED"

C13_FilledOnlyAtCount ==
    /\ \A j \in JobIds :
          (job[j].status # "FILLED" /\ job'[j].status = "FILLED")
          => \E p \in Procs :
                /\ call[p].op = "verify_otp" /\ call[p].pc = "v_filled"
                /\ call[p].jobId = j
                /\ call'[p].pc = "idle"
    /\ \A p \in Procs :
          (call[p].op = "verify_otp" /\ call[p].pc = "v_count"
              /\ call'[p].pc = "v_filled")
          => Cardinality(C13_Confirmed(call[p].jobId))
                >= job[call[p].jobId].workersNeeded

\* C13 (job filled on confirmation): when a successful verify_otp returns
\* with the job's CONTRACTOR_CONFIRMED count at or above its workersNeeded,
\* the job is FILLED; a job becomes FILLED only by the job update of a
\* verify_otp whose count found the confirmed Applications at or above
\* workersNeeded.
C13_FilledOnConfirmation ==
    []C13_FilledAfter /\ [][C13_FilledOnlyAtCount]_vars

C13_Witness ==
    /\ reply.op = "verify_otp" /\ reply.result = "SUCCESS"
    /\ job[reply.jobId].workersNeeded = 2
    /\ Cardinality(C13_Confirmed(reply.jobId)) = 2
    /\ job[reply.jobId].status = "FILLED"

\* ---------------------------------------------------------------------- C14
C14_StatusKept ==
    \A j \in JobIds : job[j].status = "CANCELLED" => job'[j].status = "CANCELLED"

C14_NoAcceptance ==
    /\ reply'.op \in {"acceptJob", "respond_to_job"}
    /\ reply'.result = "SUCCESS"
    => job[reply'.jobId].status # "CANCELLED"

\* C14: CANCELLED is terminal for jobs: once a Job's status is CANCELLED no
\* operation (acceptance, verification of an outstanding Application's code,
\* status update) changes its status again, and no acceptance of a CANCELLED
\* job succeeds.
C14_CancelledTerminal == [][C14_StatusKept /\ C14_NoAcceptance]_vars

\* The part of it about verification alone: a verify_otp call leaves a
\* CANCELLED job CANCELLED.
C14_CancelledKeptByVerify ==
    [][(\E p \in Procs : call[p].op = "verify_otp") => C14_StatusKept]_vars

\* ---------------------------------------------------------------------- C15
\* The step is the commit of an acceptJob transaction for job j.
C15_Commit(j) ==
    /\ reply'.op = "acceptJob"
    /\ reply'.result = "SUCCESS"
    /\ reply'.jobId = j

C15_Step ==
    \A j \in JobIds :
        /\ job'[j].workersNeeded <= job[j].workersNeeded
        /\ job'[j].workersNeeded # job[j].workersNeeded
           => C15_Commit(j) /\ job'[j].workersNeeded = job[j].workersNeeded - 1
        /\ C15_Commit(j) => job'[j].workersNeeded = job[j].workersNeeded - 1

\* C15: a Job's workersNeeded never increases and is changed by no operation
\* other than a committed acceptJob transaction, which lowers it by exactly
\* 1; OTP issuance and verification, cancellation and the status update
\* leave it unchanged.
C15_CounterOwnership == [][C15_Step]_vars

\* An acceptJob has committed on a job whose status was since rewritten by
\* updateJobStatus, and the counter stands one below its initial value.
C15_Witness ==
    /\ reply.op = "updateJobStatus"
    /\ reply.result = "SUCCESS"
    /\ job[reply.jobId].workersNeeded = needed0[reply.jobId] - 1
    /\ \E w \in Workers : app[<<reply.jobId, w>>].status = "ACCEPTED"

\* ---------------------------------------------------------------------- C16
\* The order of the onboarding steps; <<>> stands for no row.
C16_Succession ==
    { <<<<>>, awaiting_name>>, <<awaiting_name, awaiting_skill>>,
      <<awaiting_skill, awaiting_location>>,
      <<awaiting_location, awaiting_id_image>>, <<awaiting_id_image, <<>>>> }

\* A reply of the shape the step asks for: two characters or more, and at the
\* last step a bypass word.
C16_ValidReply(step, text) ==
    IF step = awaiting_id_image
    THEN toLowerCase(trim(text)) \in {<<"s", "k", "i", "p">>, <<"n", "o">>}
    ELSE Len(trim(text)) >= 2

\* The two answers of a completed registration: without and with an ID.
C16_Registered == {"REGISTERED", "REGISTERED_WITH_ID"}

C16_Onboarding(ph) ==
    state[ph].role = "worker" \/ reply'.result = "ASK_NAME"

\* The flow moves along the succession only, and a valid reply moves it.
C16_Order ==
    \A ph \in Phones :
        C16_Onboarding(ph) /\ reply'.phone = ph =>
            /\ state'[ph].currentStep # state[ph].currentStep
               => <<state[ph].currentStep, state'[ph].currentStep>> \in C16_Succession
            /\ /\ reply'.op = "handleMessage"
               /\ reply'.result \notin {"IMAGE_ACKNOWLEDGED", "REGISTERED_WITH_ID"}
               /\ state[ph] # NoState
               /\ trim(reply'.arg) # <<>>
               /\ C16_ValidReply(state[ph].currentStep, reply'.arg)
               => <<state[ph].currentStep, state'[ph].currentStep>> \in C16_Succession

\* The context gathers the replies as given (trimmed, the skill in lower case).
C16_Collected ==
    \A ph \in Phones :
        reply'.phone = ph =>
            /\ reply'.result = "ASK_SKILL"
               => state'[ph].contextData.name = trim(reply'.arg)
            /\ reply'.result = "ASK_LOCATION"
               => /\ state'[ph].contextData.skill = toLowerCase(trim(reply'.arg))
                  /\ state'[ph].contextData.name = state[ph].contextData.name
            /\ reply'.result = "ASK_ID_IMAGE"
               => /\ state'[ph].contextData.location = trim(reply'.arg)
                  /\ state'[ph].contextData.name = state[ph].contextData.name
                  /\ state'[ph].contextData.skill = state[ph].contextData.skill

\* The last step persists what was gathered and clears the row.
C16_Persisted ==
    \A ph \in Phones :
        reply'.phone = ph /\ reply'.result \in C16_Registered =>
            /\ state[ph].currentStep = awaiting_id_image
            /\ identity'[ph].role # "none"
            /\ identity'[ph].name = state[ph].contextData.name
            /\ identity'[ph].skill = state[ph].contextData.skill
            /\ identity'[ph].location = state[ph].contextData.location
            /\ state'[ph] = NoState

C16_Flagged ==
    \A ph \in Phones :
        reply'.phone = ph /\ reply'.result \in C16_Registered =>
            identity'[ph].isOnboarded

\* C16: worker onboarding terminates correctly: from no Conversation State,
\* valid replies take the flow through start, awaiting_name, awaiting_skill,
\* awaiting_location, awaiting_id_image in that order, and it ends with a
\* persisted Identity whose name, skill and location are the replies given
\* and whose onboarded flag is true, and with no Conversation State row.
C16_OnboardingTerminates ==
    [][C16_Order /\ C16_Collected /\ C16_Persisted /\ C16_Flagged]_vars

\* The same without the onboarded flag.
C16_AllButTheFlag == [][C16_Order /\ C16_Collected /\ C16_Persisted]_vars

\* ---------------------------------------------------------------------- C17
\* The order of the posting steps; <<>> stands for no row.
C17_Succession ==
    { <<<<>>, awaiting_job_title>>,
      <<awaiting_job_title, awaiting_skill_required>>,
      <<awaiting_skill_required, awaiting_wage>>,
      <<awaiting_wage, awaiting_job_location>>,
      <<awaiting_job_location, awaiting_workers_needed>>,
      <<awaiting_workers_needed, <<>>>> }

\* A reply the step's own check lets through.
C17_ValidReply(step, text) ==
    CASE step = awaiting_job_title -> Len(trim(text)) >= 3
      [] step = awaiting_wage -> Len(trim(text)) >= 1
      [] step = awaiting_workers_needed -> ~CountRefused(parseInt(trim(text)))
      [] OTHER -> Len(trim(text)) >= 2

C17_Posting(ph) ==
    state[ph].role = "contractor" \/ reply'.result = "ASK_TITLE"

\* The flow moves along the succession only, and a valid reply moves it.
C17_Order ==
    \A ph \in Phones :
        C17_Posting(ph) /\ reply'.phone = ph /\ reply'.op = "handleMessage" =>
            /\ state'[ph].currentStep # state[ph].currentStep
               => <<state[ph].currentStep, state'[ph].currentStep>> \in C17_Succession
            /\ /\ state[ph] # NoState
               /\ reply'.result # "IMAGE_ACKNOWLEDGED"
               /\ trim(reply'.arg) # <<>>
               /\ C17_ValidReply(state[ph].currentStep, reply'.arg)
               => <<state[ph].currentStep, state'[ph].currentStep>> \in C17_Succession

\* The last valid reply persists exactly one OPEN job holding the collected
\* fields, deletes the row and triggers matching for the job.
C17_Posted ==
    \A ph \in Phones :
        /\ C17_Posting(ph) /\ reply'.phone = ph /\ reply'.op = "handleMessage"
        /\ state[ph].currentStep = awaiting_workers_needed
        /\ state'[ph].currentStep # awaiting_workers_needed
        => /\ state'[ph] = NoState
           /\ \E j \in JobIds :
                /\ job[j] = NoJob
                /\ \A i \in JobIds \ {j} : job'[i] = job[i]
                /\ job'[j].status = "OPEN"
                /\ job'[j].contractorPhone = ph
                /\ job'[j].workersNeeded = parseInt(trim(reply'.arg)).n
                /\ posting'[j].title = state[ph].contextData.title
                /\ posting'[j].skillRequired = state[ph].contextData.skillRequired
                /\ posting'[j].wage = state[ph].contextData.wage
                /\ posting'[j].location = state[ph].contextData.location
                /\ reply'.jobId = j
                /\ reply'.sent = <<Msg(ph, "matchAndNotify", NoOtp)>>

\* C17: the job posting flow completes: driven through the message router,
\* valid replies take it through start_job, awaiting_job_title,
\* awaiting_skill_required, awaiting_wage, awaiting_job_location,
\* awaiting_workers_needed in that order without skipping or repeating a
\* step; the last valid reply persists exactly one OPEN Job holding the
\* collected fields, deletes the Conversation State row and triggers matching.
C17_PostingCompletes == [][C17_Order /\ C17_Posted]_vars

\* A job the posting flow created.
C17_JobPosted ==
    /\ reply.op = "handleMessage"
    /\ reply.result = "JOB_POSTED"
    /\ job[reply.jobId].status = "OPEN"

\* ---------------------------------------------------------------------- C18
\* The steps that check the shape of the reply, with their minimum lengths.
C18_MinLength ==
    (awaiting_name :> 2) @@ (awaiting_skill :> 2) @@ (awaiting_location :> 2) @@
    (awaiting_job_title :> 3) @@ (awaiting_skill_required :> 2) @@
    (awaiting_wage :> 1) @@ (awaiting_job_location :> 2)

\* The text is the decimal numeral of an integer.
C18_IsInteger(t) ==
    LET v == IF t # <<>> /\ Head(t) \in {"-", "+"} THEN Tail(t) ELSE t
    IN v # <<>> /\ \A i \in 1..Len(v) : isDigit(v[i])

\* The reply has the shape the step asks for, the count being an integer in
\* [1,100].
C18_ShapeOk(step, text) ==
    IF step = awaiting_workers_needed
    THEN /\ C18_IsInteger(trim(text))
         /\ parseInt(trim(text)).n \in 1..100
    ELSE Len(trim(text)) >= C18_MinLength[step]

\* The same, the count being whatever parseInt reads off the reply.
C18_ShapeOkAsParsed(step, text) ==
    IF step = awaiting_workers_needed
    THEN ~CountRefused(parseInt(trim(text)))
    ELSE Len(trim(text)) >= C18_MinLength[step]

C18_Corrective ==
    {"INVALID_NAME", "INVALID_SKILL", "INVALID_LOCATION", "INVALID_TITLE",
     "INVALID_SKILL_REQUIRED", "INVALID_WAGE", "INVALID_JOB_LOCATION",
     "INVALID_WORKERS_NEEDED"}

\* The field a step writes.
C18_Field(step, ctx) ==
    CASE step = awaiting_name -> ctx.name
      [] step = awaiting_skill -> ctx.skill
      [] step = awaiting_location -> ctx.location
      [] step = awaiting_job_title -> ctx.title
      [] step = awaiting_skill_required -> ctx.skillRequired
      [] step = awaiting_wage -> ctx.wage
      [] step = awaiting_job_location -> ctx.location

C18_Step(ok(_, _)) ==
    \A ph \in Phones :
        LET step == state[ph].currentStep
        IN /\ reply'.phone = ph
           /\ step \in DOMAIN C18_MinLength \cup {awaiting_workers_needed}
           => /\ ~ok(step, reply'.arg)
                 => /\ state'[ph] = state[ph]
                    /\ reply'.result \in C18_Corrective
                    /\ job' = job
              /\ ok(step, reply'.arg)
                 => /\ state'[ph].currentStep # step
                    /\ reply'.result \notin C18_Corrective
                    /\ step # awaiting_workers_needed
                       => C18_Field(step, state'[ph].contextData)
                             \in {trim(reply'.arg), toLowerCase(trim(reply'.arg))}

C18_JobsInRange ==
    \A j \in JobIds : job'[j].status # "NONE" => job'[j].workersNeeded \in 1..100

\* C18: validation failure keeps the step: in both flows a reply that fails
\* the step's shape check (empty, shorter than the step's minimum length, at
\* the workers-needed step not an integer in [1,100]) gets a corrective
\* prompt and leaves the Conversation State row as it was; only a valid
\* reply writes the step's field and advances; every Job the flow creates
\* has workersNeeded in 1..100.
C18_ValidationKeepsStep == [][C18_Step(C18_ShapeOk) /\ C18_JobsInRange]_vars

\* The same with the count taken as parseInt reads it: the digits the reply
\* starts with.
C18_ValidationAsParsed == [][C18_Step(C18_ShapeOkAsParsed) /\ C18_JobsInRange]_vars

\* ---------------------------------------------------------------------- C19
\* The bypass words.
C19_Bypass == {<<"s", "k", "i", "p">>, <<"n", "o">>}

\* The message handled in this step came from ph while ph was at the
\* ID-image step.
C19_AtIdImage(ph) ==
    /\ state[ph].currentStep = awaiting_id_image
    /\ reply'.op = "handleMessage"
    /\ reply'.phone = ph

C19_IsImage == reply'.result \in {"REGISTERED_WITH_ID", "IMAGE_ACKNOWLEDGED"}

\* Registration completed on the context as gathered: the Identity holds its
\* name, skill and location and the row is gone.
C19_Completes(ph) ==
    /\ state'[ph] = NoState
    /\ identity'[ph].role # "none"
    /\ identity'[ph].name = state[ph].contextData.name
    /\ identity'[ph].skill = state[ph].contextData.skill
    /\ identity'[ph].location = state[ph].contextData.location

C19_Step ==
    \A ph \in Phones :
        C19_AtIdImage(ph) =>
            /\ state[ph].contextData.name # Absent
            /\ C19_IsImage
               => /\ reply'.result = "REGISTERED_WITH_ID"
                  /\ C19_Completes(ph)
                  /\ identity'[ph].idImageUrl = Uploaded
            /\ ~C19_IsImage /\ toLowerCase(trim(reply'.arg)) \in C19_Bypass
               => /\ reply'.result = "REGISTERED"
                  /\ C19_Completes(ph)
                  /\ identity'[ph].idImageUrl = Absent
            /\ /\ ~C19_IsImage
               /\ trim(reply'.arg) # <<>>
               /\ toLowerCase(trim(reply'.arg)) \notin C19_Bypass
               => /\ reply'.result = "ASK_ID_IMAGE_AGAIN"
                  /\ state'[ph] = state[ph]
                  /\ identity' = identity
            /\ ~C19_IsImage /\ trim(reply'.arg) = <<>>
               => state'[ph] = state[ph] /\ identity' = identity

C20_Unrecognised ==
    {"REGISTRATION_WENT_WRONG", "POSTING_WENT_WRONG", "LOST_TRACK"}

\* A message that met an unrecognised step has deleted the row.
C20_Step ==
    \A ph \in Phones :
        /\ reply'.op = "handleMessage"
        /\ reply'.phone = ph
        /\ reply'.result \in C20_Unrecognised
        => state'[ph] = NoState

\* Some text message moves or clears the row ph holds.
C20_CanMove(ph) ==
    \E text \in Replies :
        /\ trim(text) # <<>>
        /\ handleStatefulMessage(state[ph], text).st # state[ph]

C20_NeverStuck ==
    \A ph \in Phones : state[ph] # NoState => C20_CanMove(ph)

\* C20: an unrecognised step self-heals: whenever the stored current step is
\* not one the handler receiving the message recognises, the next text
\* message deletes the Conversation State row and tells the user to restart,
\* so no phone is left holding a state from which no reply can advance or
\* clear the flow.
C20_SelfHeals == []C20_NeverStuck /\ [][C20_Step]_vars

\* ---------------------------------------------------------------------- C21
\* The answers that only intent detection leads to: the first prompt of a
\* flow, the acceptance and job-search answers, the welcome.
C21_IntentAnswers ==
    {"ASK_NAME", "ASK_TITLE", "NO_OPEN_JOBS", "NOT_REGISTERED", "NO_JOBS_FOUND",
     "WELCOME"}

\* A text message of a phone that holds a row: it is not answered by intent,
\* the row it leaves, if any, belongs to the same flow, and nothing but the
\* flow's own terminal step touches the ledgers.
C21_Step ==
    \A ph \in Phones :
        /\ reply'.op = "handleMessage"
        /\ reply'.phone = ph
        /\ reply'.result \notin {"IMAGE_ACKNOWLEDGED", "REGISTERED_WITH_ID"}
        /\ state[ph] # NoState
        => /\ reply'.result \notin C21_IntentAnswers
           /\ state'[ph] # NoState => state'[ph].role = state[ph].role
           /\ app' = app
           /\ reply'.result # "JOB_POSTED" => job' = job

\* One row per phone: the table is keyed by the phone number.
C21_OneRow ==
    /\ DOMAIN state = Phones
    /\ \A ph \in Phones :
          state[ph] = NoState \/ state[ph].role \in {"worker", "contractor"}

C22_Returns == reply'.op = "matchAndNotify" /\ reply'.pc = "done"

C22_HasSkill(w, j) ==
    /\ identity[w].role = "worker"
    /\ contains(toLowerCase(identity[w].skill), toLowerCase(posting[j].skillRequired))

C22_InCity(w, j) ==
    contains(toLowerCase(identity[w].location),
             toLowerCase(jobCity(posting[j].location)))

C22_Primary(j) == {w \in Workers : C22_HasSkill(w, j) /\ C22_InCity(w, j)}

C22_Secondary(j) == {w \in Workers : C22_HasSkill(w, j)}

C22_Step ==
    C22_Returns =>
        LET j == reply'.jobId
        IN /\ reply'.found = IF C22_Primary(j) # {}
                             THEN C22_Primary(j)
                             ELSE C22_Secondary(j)
           /\ "fallback" \in reply'.pre <=> C22_Primary(j) = {}

C23_Notified == {reply'.sent[i].to : i \in {k \in DOMAIN reply'.sent :
                                               reply'.sent[k].kind = "job"}}

\* C23: only available workers are candidates: no worker whose availableFrom
\* lies in the future is returned by matching or notified about a job, in
\* the first pass and in the skill-only pass alike.
C23_OnlyAvailableCandidates ==
    [][reply'.op = "matchAndNotify" /\ reply'.pc = "done"
        => \A w \in reply'.found \cup C23_Notified : ~Busy(worker[w])]_vars

\* ---------------------------------------------------------------------- C24
C24_Contractor == job[reply'.jobId].contractorPhone

\* The messages of kind k enqueued to recipient r.
C24_Count(r, k) ==
    Cardinality({i \in DOMAIN reply'.sent :
                    reply'.sent[i].to = r /\ reply'.sent[i].kind = k})

C24_Step ==
    reply'.op = "matchAndNotify" /\ reply'.pc = "done" =>
        /\ Len(reply'.sent) > 0
        /\ reply'.found # {}
           => /\ \A w \in reply'.found : C24_Count(w, "job") = 1
              /\ Len(reply'.sent) = Cardinality(reply'.found)
              /\ \A i \in DOMAIN reply'.sent : reply'.sent[i].to # C24_Contractor
        /\ reply'.found = {}
           => /\ C24_Count(C24_Contractor, "no_workers") = 1
              /\ Len(reply'.sent) = 1

C24_WitnessBroadcast ==
    /\ reply.op = "matchAndNotify"
    /\ Cardinality(reply.found) = 2
    /\ Len(reply.sent) = 2

\* ---------------------------------------------------------------------- C25
\* An acceptJob call returns in this step.
C25_Returns == reply'.op = "acceptJob" /\ reply'.pc = "done"

\* The acceptance that commits in this step makes job j FILLED.
C25_MadeFilled(j) == job[j].status # "FILLED" /\ job'[j].status = "FILLED"

C25_Step ==
    C25_Returns =>
        IF reply'.result = "SUCCESS"
        THEN LET j == reply'.jobId
                 c == job[j].contractorPhone
                 accepted == [to |-> c, kind |-> "accepted", otp |-> NoOtp,
                              count |-> job'[j].workersNeeded]
                 filled == [to |-> c, kind |-> "filled", otp |-> NoOtp]
             IN /\ app[<<j, reply'.phone>>].status = "NONE"
                /\ app'[<<j, reply'.phone>>].status = "ACCEPTED"
                /\ reply'.sent = IF C25_MadeFilled(j)
                                 THEN <<accepted, filled>>
                                 ELSE <<accepted>>
        ELSE reply'.sent = <<>>

\* C25: acceptance notifications follow the commit: a successful acceptJob
\* enqueues, once its transaction has committed, one acceptance notice to the
\* job's contractor stating the remaining count, followed by a separate
\* all-positions-filled notice if and only if that acceptance made the job
\* FILLED; an acceptJob that fails enqueues no message.
C25_NoticesFollowCommit == [][C25_Step]_vars

\* What does hold: the notices state the row the update returned, and the
\* filled notice follows exactly when that row is FILLED.
C25_NoticesOfTheRowReturned ==
    [][C25_Returns =>
        IF reply'.result = "SUCCESS"
        THEN LET j == reply'.jobId
                 c == job[j].contractorPhone
             IN /\ app[<<j, reply'.phone>>].status = "NONE"
                /\ app'[<<j, reply'.phone>>].status = "ACCEPTED"
                /\ reply'.sent[1] = [to |-> c, kind |-> "accepted", otp |-> NoOtp,
                                     count |-> job'[j].workersNeeded]
                /\ Len(reply'.sent) = (IF job'[j].status = "FILLED" THEN 2 ELSE 1)
                /\ Len(reply'.sent) = 2 =>
                       reply'.sent[2] = [to |-> c, kind |-> "filled", otp |-> NoOtp]
        ELSE reply'.sent = <<>>]_vars

\* ---------------------------------------------------------------------- C26
\* C26: an acceptJob given a partial job id that is a prefix of more than one
\* OPEN job's id returns the job-not-found failure, creates no Application
\* and changes no Job.
C26_AmbiguousPrefixNotFound ==
    [][(reply'.op = "acceptJob" /\ reply'.pc = "done"
        /\ "ambiguous" \in reply'.pre)
       => (reply'.result = "JOB_NOT_FOUND" /\ job' = job /\ app' = app)]_vars

\* ---------------------------------------------------------------------- C27
\* The messages enqueued in this step that carry a code.
C27_CodeMessages ==
    {i \in DOMAIN reply.sent : reply.sent[i].otp # NoOtp}

\* C27: the code issued for an Application appears only in messages enqueued
\* to that Application's worker: no message to the contractor or to any other
\* recipient, at any step, contains the code an Application holds.
C27_OtpConfidential ==
    \A i \in C27_CodeMessages, k \in JobIds \X Workers :
        app[k].otp = reply.sent[i].otp => reply.sent[i].to = k[2]

\* What does hold: a code is only ever enqueued by the acceptance that stored
\* it, to the worker of that acceptance, and never to a contractor.
C27_CodeToItsWorkerOnly ==
    \A i \in C27_CodeMessages :
        /\ reply.op = "respond_to_job"
        /\ reply.sent[i].to = reply.appKey[2]
        /\ reply.sent[i].to \notin Contractors
        /\ app[reply.appKey].otp = reply.sent[i].otp

\* ---------------------------------------------------------------------- C28
\* The name a message states, Absent if its text names nobody.
C28_NameIn(m) == IF "name" \in DOMAIN m THEN m.name ELSE Absent

\* C28: identity is revealed only on verification: no notification enqueued
\* to the contractor, in particular the acceptance notice, contains the
\* worker's name (the contractor learns it only from the response to a
\* successful verify_otp).
C28_IdentityOnlyOnVerification ==
    \A i \in DOMAIN reply.sent :
        reply.sent[i].to \in Contractors => C28_NameIn(reply.sent[i]) = Absent

\* What does hold for the transactional acceptJob: its notices to the
\* contractor state the worker's phone number and the count, never a name.
C28_AcceptJobNoticeNamesNobody ==
    reply.op = "acceptJob" =>
        \A i \in DOMAIN reply.sent : C28_NameIn(reply.sent[i]) = Absent

\* ---------------------------------------------------------------------- C29
\* No verify_otp call is at work on Application k.
C29_Settled(k) ==
    \A p \in Procs : ~(call[p].op = "verify_otp" /\ call[p].appKey = k)

\* A confirmed Application has its worker's availability applied, and its
\* job's status when the confirmations reach the number wanted.
C29_ConfirmedIsWhole ==
    \A k \in JobIds \X Workers :
        (app[k].status = "CONTRACTOR_CONFIRMED" /\ C29_Settled(k)) =>
            /\ worker[k[2]].availableFrom # Null
            /\ (/\ \A w \in Workers : C29_Settled(<<k[1], w>>)
                /\ job[k[1]].workersNeeded = needed0[k[1]]
                /\ Cardinality({w \in Workers :
                       app[<<k[1], w>>].status = "CONTRACTOR_CONFIRMED"})
                     >= job[k[1]].workersNeeded)
               => job[k[1]].status # "OPEN"

\* An Application is created only together with its capacity decrement.
C29_CreatedWithDecrement ==
    \A k \in JobIds \X Workers :
        (app[k].status = "NONE" /\ app'[k].status = "ACCEPTED") =>
            job'[k[1]].workersNeeded = job[k[1]].workersNeeded - 1

\* A call that is rejected or fails in the step that starts it changes no
\* record.
C29_RejectedChangesNothing ==
    (reply'.pc = "done" /\ reply'.op \in {"acceptJob", "verify_otp"}
     /\ reply'.result # "SUCCESS" /\ \A p \in Procs : call'[p] = call[p])
        => (job' = job /\ app' = app /\ worker' = worker)

\* C29: all-or-nothing on failure: acceptJob and verify_otp each apply all of
\* their ledger writes or none; there is never an Application marked
\* CONTRACTOR_CONFIRMED whose worker availability or job-status update was
\* not applied, nor an Application created without its capacity decrement.
C29_AllOrNothing ==
    /\ []C29_ConfirmedIsWhole
    /\ [][C29_CreatedWithDecrement /\ C29_RejectedChangesNothing]_vars

\* What does hold, failing statements included: acceptJob's part of C29.
C29_AcceptJobAllOrNothing ==
    [][C29_CreatedWithDecrement /\ C29_RejectedChangesNothing]_vars

\* ---------------------------------------------------------------------- C30
\* The items of seq addressed to jid, in order.
C30_For(seq, jid) == SelectSeq(seq, LAMBDA m : m.jid = jid)

\* a is an initial stretch of b.
C30_IsPrefix(a, b) == Len(a) <= Len(b) /\ a = SubSeq(b, 1, Len(a))

\* C30: per-recipient delivery order: for any single recipient the queue
\* attempts sends in exactly the order in which that recipient's messages
\* were enqueued, whatever the interleaving of enqueue calls with sends in
\* flight and delays; globally messages leave the queue in FIFO order.
C30_DeliveryOrder ==
    /\ \A jid \in Jids :
          C30_IsPrefix(C30_For(bq.attempts, jid), C30_For(bq.enqueued, jid))
    /\ bq.attempts \o bq.queue = bq.enqueued

\* Two messages of one recipient have been attempted, with a message of the
\* other recipient enqueued between them, while a further message, enqueued
\* during a send, waits out the delay.
C30_Witness ==
    /\ bq.pc = "sleep"
    /\ Len(bq.attempts) >= 3
    /\ bq.attempts[1].jid = bq.attempts[3].jid
    /\ bq.attempts[2].jid # bq.attempts[1].jid
    /\ bq.queue # <<>>

\* ---------------------------------------------------------------------- C31
\* An acceptance (acceptJob, or respond_to_job) of a job posted for one
\* worker succeeds in this step.
C31_Accepts(j) ==
    /\ reply'.pc = "done" /\ reply'.result = "SUCCESS"
    /\ reply'.op \in {"acceptJob", "respond_to_job"}
    /\ reply'.jobId = j /\ needed0[j] = 1

\* The worker whose acceptJob was recorded asks for the code of that job.
C31_AsksCode ==
    /\ reply'.pc = "done" /\ reply'.op = "respond_to_job"
    /\ "assigned" \in reply'.pre

\* A verification succeeds in this step.
C31_Verified ==
    /\ reply'.pc = "done" /\ reply'.op = "verify_otp"
    /\ reply'.result = "SUCCESS"

C31_Step ==
    /\ \A j \in JobIds : C31_Accepts(j) => job'[j].status = "FILLED"
    /\ C31_AsksCode =>
          /\ reply'.result = "SUCCESS"
          /\ \E i \in DOMAIN reply'.sent :
                reply'.sent[i].to = reply'.phone /\ reply'.sent[i].otp # NoOtp
    /\ C31_Verified =>
          worker'[reply'.appKey[2]].availableFrom = job[reply'.jobId].endDate

\* C31: end-to-end protocol: for a job posted with workersNeeded = 1, the
\* worker's acceptance succeeds and the job is FILLED; the worker is then
\* issued a code; and when the contractor submits it the verification
\* succeeds and the worker's availability is the job's end date.
C31_EndToEnd == [][C31_Step]_vars

\* What does hold: a successful respond_to_job issues the code to the worker
\* and leaves the job as it is.
C31_CodeIssuedJobUntouched ==
    [][(reply'.pc = "done" /\ reply'.result = "SUCCESS"
        /\ reply'.op = "respond_to_job")
       => (/\ job' = job
           /\ reply'.sent[1] = [to |-> reply'.phone, kind |-> "otp",
                                otp |-> app'[reply'.appKey].otp]
           /\ app'[reply'.appKey].otp # NoOtp)]_vars

\* ---------------------------------------------------------------------- C32
\* C32: counter and status agree: after any sequence and interleaving of
\* acceptJob calls on jobs created OPEN with workersNeeded >= 1, every job has
\* workersNeeded >= 0, is FILLED exactly when workersNeeded = 0 and OPEN
\* exactly when workersNeeded > 0.
C32_CounterAndStatusAgree ==
    \A j \in JobIds :
        job[j].status # "NONE" =>
            /\ job[j].workersNeeded >= 0
            /\ job[j].status = "FILLED" <=> job[j].workersNeeded = 0
            /\ job[j].status = "OPEN" <=> job[j].workersNeeded > 0

\* ---------------------------------------------------------------------- C33
\* C33: throttled sending: between any two consecutive send attempts of the
\* broadcast queue the configured delay elapses, also when the second message
\* is enqueued just after the first was sent and the queue had become empty.
C33_Throttled ==
    [][(Len(bq'.attempts) > Len(bq.attempts) /\ bq.attempts # <<>>)
       => (bq.elapsed \/ bq.pc = "sleep")]_vars

\* What does hold: a message that was queued while the previous one was
\* being sent is attempted only after the delay.
C33_ThrottledWhileBusy ==
    [][(Len(bq'.attempts) > Len(bq.attempts) /\ bq.attempts # <<>>
        /\ bq.isProcessing)
       => bq.pc = "sleep"]_vars

\* ---------------------------------------------------------------------- C34
\* C34: single queue processor: at most one processQueue loop is ever active,
\* and whenever control is back in the event loop a non-empty queue implies
\* isProcessing: an enqueue arriving during a send or a delay starts no
\* second loop and leaves no message waiting without an active processor.
C34_SingleProcessor ==
    /\ bq.active <= 1
    /\ bq.isProcessing <=> bq.active = 1
    /\ bq.isProcessing <=> bq.pc # "idle"
    /\ bq.queue # <<>> => bq.isProcessing

\* Messages enqueued while a send was in flight and during the delay wait
\* for the one loop.
C34_Witness ==
    /\ bq.pc = "sleep" /\ Len(bq.queue) >= 2 /\ bq.active = 1

\* ---------------------------------------------------------------------- C35
\* The items of a sequence.
C35_Items(seq) == {seq[i] : i \in DOMAIN seq}

\* Every enqueued message is in the queue, or was handed to sendFn once, or
\* was dropped once for lack of a send function.
C35_ExactlyOnce ==
    /\ C35_Items(bq.attempts) \cup C35_Items(bq.dropped) \cup C35_Items(bq.queue)
          = C35_Items(bq.enqueued)
    /\ Len(bq.attempts) + Len(bq.dropped) + Len(bq.queue) = Len(bq.enqueued)
    /\ bq.thrown \subseteq C35_Items(bq.attempts)

\* The n-th enqueued message has left the queue.
C35_Handled(n) ==
    /\ Len(bq.enqueued) >= n
    /\ bq.enqueued[n] \in C35_Items(bq.attempts) \cup C35_Items(bq.dropped)

C36_AttendanceMatchesStatus ==
    \A k \in JobIds \X Workers :
        app[k].attendanceStatus = "PRESENT"
            <=> app[k].status = "CONTRACTOR_CONFIRMED"

\* ---------------------------------------------------------------------- C37
\* C37: racing verifications: when two verify_otp calls carrying the same
\* valid code for the same Application run concurrently, at most one reports
\* success and the confirmation effects happen once: the call that found the
\* Application while the other was at work on it neither succeeds nor
\* notifies the worker.
C37_OneVerificationWins ==
    [][(reply'.pc = "done" /\ reply'.op = "verify_otp"
        /\ "racing" \in reply'.pre)
       => (reply'.result # "SUCCESS" /\ reply'.sent = <<>>)]_vars

\* ---------------------------------------------------------------------- C38
\* The confirmed Applications of job j.
C38_Confirmed(j) ==
    {w \in Workers : app[<<j, w>>].status = "CONTRACTOR_CONFIRMED"}

C38_Bound ==
    \A j \in JobIds :
        job[j].status # "NONE" =>
            Cardinality(C38_Confirmed(j)) <= job[j].workersNeeded

\* A verification that found its Application while the job was FILLED does
\* not confirm it.
C38_NoneForFilled ==
    \A p \in Procs :
        (call[p].op = "verify_otp" /\ call[p].pc = "v_update"
         /\ call[p].jobRow.status = "FILLED")
            => app'[call[p].appKey] = app[call[p].appKey]

\* C38: confirmed headcount bound: for every job and any interleaving of
\* respond_to_job, verify_otp and cancel_application calls the number of
\* CONTRACTOR_CONFIRMED Applications never exceeds the job's workersNeeded,
\* and no verification succeeds for a job that is already FILLED.
C38_HeadcountBound == []C38_Bound /\ [][C38_NoneForFilled]_vars

\* ---------------------------------------------------------------------- C39
\* A cancel_application call succeeds in this step.
C39_Cancels ==
    /\ reply'.pc = "done" /\ reply'.op = "cancel_application"
    /\ reply'.result = "SUCCESS"

C39_Step ==
    C39_Cancels =>
        LET k == reply'.appKey
        IN /\ job' = job
           /\ worker' = worker
           /\ \A o \in (JobIds \X Workers) \ {k} : app'[o] = app[o]
           /\ app'[k] = [app[k] EXCEPT !.status = "CANCELLED",
                                       !.cancelledBy = reply'.by,
                                       !.otp = NoOtp,
                                       !.otpExpiresAt = Null]

\* C39: cancellation touches only the Application: cancel_application changes
\* the Application's status, cancelledBy, otp and otpExpiresAt and nothing
\* else; the Job's status and workersNeeded and the worker's availableFrom
\* stay, so cancelling an accepted Application does not reopen a FILLED job
\* or return the consumed slot.
C39_CancelTouchesOnlyApplication == [][C39_Step]_vars

\* The Application that filled the job through acceptJob has been cancelled:
\* the job is still FILLED with no slot left.
C39_Witness ==
    /\ reply.pc = "done" /\ reply.op = "cancel_application"
    /\ reply.result = "SUCCESS"
    /\ app[reply.appKey].status = "CANCELLED"
    /\ job[reply.jobId].status = "FILLED"
    /\ job[reply.jobId].workersNeeded = 0

\* ---------------------------------------------------------------------- C40
\* C40: CANCELLED is terminal for applications: once an Application is
\* CANCELLED it never changes again: a later affirmative reply of the same
\* worker to the same job neither returns it to an accepted status nor gives
\* it a new code, and a second cancel does not alter the cancelling party.
C40_CancelledApplicationTerminal ==
    [][\A k \in JobIds \X Workers :
          app[k].status = "CANCELLED" => app'[k] = app[k]]_vars

\* What does hold: a second cancel leaves the status CANCELLED and the code
\* cleared.
C40_CancelKeepsCancelled ==
    [][\A k \in JobIds \X Workers :
          (app[k].status = "CANCELLED" /\ reply'.op = "cancel_application")
              => (app'[k].status = "CANCELLED" /\ app'[k].otp = NoOtp)]_vars

====
